---- MODULE Spec2Model ----
(***************************************************************************)
(* it-snapshot v2: collector contract, orchestrator (cli.run), report      *)
(* assembler (cli._assemble_report), findings engine and maintenance plan  *)
(* generator, the output and delivery phase of a run, and the inventory    *)
(* server (server/routers), as a state machine.                            *)
(*                                                                         *)
(* Python values are tagged records, so that None, {}, [] and 0 stay       *)
(* distinct and dict.get / "or" / {**a, **b} are translated as written.    *)
(***************************************************************************)
EXTENDS Integers, Sequences, FiniteSets, TLC

VARIABLES
    mode,              \* "run": cli.run() ; "call": _assemble_report() called as a function ;
                       \* "findings": compute_findings() called on a report dict ;
                       \* "match": match_installed() ; "generate": generate() ;
                       \* "deliver": cli.run() from "Write outputs" on ; "server": the API
    platform,          \* sys.platform
    pc,                \* position inside run() / the caller
    common_hw_result,  \* CollectorResult of common HardwareCollector
    common_stor_result,
    common_net_result,
    uptime_result,
    legacy_os,         \* dict returned by _collect_legacy_os (or {})
    all_errors,        \* list[str]
    platform_collectors, \* list of (label, collector) still to run
    platform_results,  \* dict label -> data
    trace,             \* every collector step invoked so far, with its outcome and result
    report,            \* the dict returned by _assemble_report, None before
    maintenance_plan,  \* the dict returned by generate(report), None before
    clock,             \* how many times the clock / uuid4 have been read
    args,              \* the parsed command line of the run (format, mode, maintenance)
    exit_status,       \* exit status of the process, None while it runs
    outputs,           \* what has been written or delivered so far
    stderr,            \* the failures reported on stderr
    devices,           \* server: rows of the devices table, by rowid
    reports,           \* server: rows of the reports table, by rowid
    response           \* server: the response to the last request

vars == <<mode, platform, pc, common_hw_result, common_stor_result, common_net_result,
          uptime_result, legacy_os, all_errors, platform_collectors, platform_results,
          trace, report, maintenance_plan, clock,
          args, exit_status, outputs, stderr, devices, reports, response>>

delivery_vars == <<args, exit_status, outputs, stderr>>

server_vars == <<devices, reports, response>>

(***************************************************************************)
(* Python values                                                           *)
(***************************************************************************)
PyNone == [none |-> TRUE]
PyBool(b) == [bool |-> b]
PyInt(n) == [int |-> n]
PyStr(s) == [str |-> s]
PyList(s) == [list |-> s]
PyDict(f) == [dict |-> f]
EmptyDict == PyDict(<<>>)
EmptyList == PyList(<<>>)

IsNone(v) == "none" \in DOMAIN v
IsBool(v) == "bool" \in DOMAIN v
IsInt(v) == "int" \in DOMAIN v
IsStr(v) == "str" \in DOMAIN v
IsList(v) == "list" \in DOMAIN v
IsDict(v) == "dict" \in DOMAIN v

\* bool(v)
Truthy(v) ==
    IF IsNone(v) THEN FALSE
    ELSE IF IsBool(v) THEN v.bool
    ELSE IF IsInt(v) THEN v.int # 0
    ELSE IF IsStr(v) THEN v.str # ""
    ELSE IF IsList(v) THEN Len(v.list) # 0
    ELSE DOMAIN v.dict # {}

\* a or b
Or(a, b) == IF Truthy(a) THEN a ELSE b

\* d.get(k, default)
Get(d, k, default) == IF k \in DOMAIN d.dict THEN d.dict[k] ELSE default

\* d.get(k)
Get1(d, k) == Get(d, k, PyNone)

\* k in d
Has(d, k) == k \in DOMAIN d.dict

\* {**a, **b}
Merge(a, b) ==
    PyDict([k \in DOMAIN a.dict \cup DOMAIN b.dict |->
            IF k \in DOMAIN b.dict THEN b.dict[k] ELSE a.dict[k]])

\* d[k] = v
SetItem(d, k, v) ==
    PyDict([x \in DOMAIN d.dict \cup {k} |-> IF x = k THEN v ELSE d.dict[x]])

\* l1.extend(l2)
Extend(l1, l2) == PyList(l1.list \o l2.list)

\* l.append(x)
PyAppend(l, x) == PyList(Append(l.list, x))

(***************************************************************************)
(* Collector contract (collectors/base.py)                                 *)
(***************************************************************************)
\* What a call of _collect() does: return a dict, or raise an Exception.
Returns(d) == [returns |-> d]
Raises(cause) == [raises |-> cause]
DidRaise(outcome) == "raises" \in DOMAIN outcome

\* str(exc) of the exceptions a collector body meets (absent command, timeout, ...)
Causes == {"timed out", "access denied"}

\* The exception one step meets when it fails
CausesOf(name) == IF name \in {"common.uptime", "legacy_os"} THEN {"access denied"} ELSE {"timed out"}

CollectorResult(data, errors) == [data |-> data, errors |-> errors]

\* An exception leaving a function is the value Propagate(cause).
Propagate(cause) == [propagated |-> cause]
Propagated(r) == "propagated" \in DOMAIN r

\* BaseCollector.collect with the try/except removed
collect_Unguarded(name, outcome) ==
    IF DidRaise(outcome)
    THEN Propagate(outcome.raises)
    ELSE CollectorResult(outcome.returns, EmptyList)

\* BaseCollector.collect that reports the failure but keeps no collector name
collect_NoName(name, outcome) ==
    IF DidRaise(outcome)
    THEN CollectorResult(EmptyDict, PyList(<<PyStr(outcome.raises)>>))
    ELSE CollectorResult(outcome.returns, EmptyList)

\* BaseCollector.collect: wrap _collect in try/except; never raises
collect(name, outcome) ==
    IF DidRaise(outcome)
    THEN CollectorResult(EmptyDict, PyList(<<PyStr(name \o ": " \o outcome.raises)>>))
    ELSE CollectorResult(outcome.returns, EmptyList)

(***************************************************************************)
(* What the collectors return when _collect() succeeds                     *)
(***************************************************************************)
\* collectors/common/hardware.py
CommonHardwareData ==
    PyDict([cpu |-> PyDict([physical_cores |-> PyInt(4), logical_cores |-> PyInt(8),
                            usage_percent |-> PyInt(12)]),
            ram |-> PyDict([total_gb |-> PyInt(16), percent_used |-> PyInt(40)])])

\* collectors/common/storage.py
CommonStorageData ==
    PyDict([partitions |-> PyList(<<
        PyDict([device |-> PyStr("C:\\"), mountpoint |-> PyStr("C:\\"),
                fstype |-> PyStr("NTFS"), percent_used |-> PyInt(96),
                status |-> PyStr("ok")])>>)])

\* collectors/common/network.py
CommonNetworkData ==
    PyDict([interfaces |-> PyList(<<PyDict([name |-> PyStr("eth0"), is_up |-> PyBool(TRUE)])>>)])

\* collectors/common/uptime.py: snapshot_utc is the collector's own clock reading
UptimeData ==
    PyDict([last_boot_utc |-> PyStr("2026-01-01T00:00:00+00:00"),
            snapshot_utc |-> PyStr("2026-02-15T00:00:00+00:00"),
            uptime |-> PyDict([days |-> PyInt(45), human_readable |-> PyStr("45d 0h 0m 0s")])])

\* cli._collect_legacy_os
LegacyOsData ==
    PyDict([hostname |-> PyStr("host1"),
            os |-> PyDict([name |-> PyStr("Windows"), release |-> PyStr("11")]),
            architecture |-> PyStr("AMD64"),
            cpu |-> PyDict([physical_cores |-> PyInt(4), logical_cores |-> PyInt(8)]),
            ram |-> PyDict([total_gb |-> PyInt(16), percent_used |-> PyInt(40)]),
            current_user |-> PyStr("alice")])

\* collectors/windows/device_identity.py, collectors/macos/device_identity.py
DeviceIdentityData(plat) ==
    PyDict([hostname |-> PyStr("host1"), fqdn |-> PyStr("host1.corp"),
            os_family |-> PyStr(plat)])

\* collectors/windows/hardware.py
WinHardwareData ==
    PyDict([cpu |-> PyDict([name |-> PyStr("Xeon"), physical_cores |-> PyInt(6),
                            max_clock_mhz |-> PyNone]),
            ram |-> PyDict([total_gb |-> PyInt(32), modules |-> PyList(<<PyDict([capacity_gb |-> PyInt(32)])>>)]),
            gpu |-> PyList(<<PyDict([name |-> PyStr("RTX")])>>),
            motherboard |-> PyDict([manufacturer |-> PyStr("Dell")]),
            bios |-> PyDict([vendor |-> PyStr("Dell")]),
            tpm |-> PyDict([present |-> PyBool(TRUE)]),
            secure_boot |-> PyDict([enabled |-> PyBool(TRUE)]),
            monitors |-> EmptyList,
            printers |-> EmptyList])

\* collectors/macos/hardware.py
MacHardwareData ==
    PyDict([cpu |-> PyDict([name |-> PyStr("Apple M2"), physical_cores |-> PyInt(8)]),
            ram |-> PyDict([total_gb |-> PyInt(24)]),
            gpu |-> PyList(<<PyDict([name |-> PyStr("Apple M2")])>>),
            motherboard |-> PyDict([manufacturer |-> PyStr("Apple Inc.")]),
            bios |-> EmptyDict,
            tpm |-> EmptyDict,
            secure_boot |-> EmptyDict,
            monitors |-> EmptyList,
            printers |-> EmptyList])

\* collectors/windows/storage.py
WinStorageData ==
    PyDict([physical_disks |-> PyList(<<PyDict([model |-> PyStr("NVMe"), size_gb |-> PyInt(512)])>>),
            logical_volumes |-> PyList(<<
                PyDict([drive_letter |-> PyStr("C:\\"), device |-> PyStr("C:\\"),
                        fstype |-> PyStr("NTFS"), percent_used |-> PyInt(91),
                        status |-> PyStr("ok"), bitlocker_status |-> PyNone])>>)])

\* collectors/macos/storage.py
MacStorageData ==
    PyDict([physical_disks |-> PyList(<<PyDict([model |-> PyStr("APPLE SSD"), size_gb |-> PyInt(256)])>>),
            logical_volumes |-> PyList(<<
                PyDict([device |-> PyStr("/dev/disk3s1"), mountpoint |-> PyStr("/"),
                        fstype |-> PyStr("apfs"), percent_used |-> PyInt(50),
                        status |-> PyStr("ok")])>>)])

\* collectors/windows/os_info.py, collectors/macos/os_info.py
OsDetailData(plat) ==
    PyDict([edition |-> PyStr(plat),
            patches |-> PyDict([count |-> PyInt(1),
                                last_installed |-> PyStr("/Date(1764190800000)/"),
                                hotfixes |-> PyList(<<PyDict([id |-> PyStr("KB5000001")])>>)]),
            local_admins |-> PyList(<<PyStr("alice")>>)])

\* collectors/windows/software.py
WinSoftwareData ==
    PyDict([installed |-> PyList(<<PyDict([name |-> PyStr("uTorrent"), version |-> PyStr("3.6")])>>),
            count |-> PyInt(1),
            startup_entries |-> PyList(<<PyDict([name |-> PyStr("OldRun")])>>)])

\* collectors/macos/software.py
MacSoftwareData ==
    PyDict([installed |-> PyList(<<PyDict([name |-> PyStr("Safari"), version |-> PyStr("17")])>>),
            count |-> PyInt(1),
            startup |-> EmptyList,
            pkgutil_count |-> PyInt(3)])

\* collectors/windows/security.py
WinSecurityData ==
    PyDict([antivirus |-> PyList(<<PyDict([name |-> PyStr("Defender"), enabled |-> PyBool(TRUE)])>>),
            firewall |-> PyDict([domain_enabled |-> PyBool(TRUE), private_enabled |-> PyBool(TRUE),
                                 public_enabled |-> PyBool(FALSE)]),
            uac_enabled |-> PyBool(TRUE),
            encryption |-> PyDict([bitlocker_volumes |-> PyList(<<
                PyDict([mount_point |-> PyStr("C:"), protection_status |-> PyInt(0)])>>)]),
            windows_defender |-> PyDict([enabled |-> PyBool(TRUE)]),
            secure_boot_enabled |-> PyBool(TRUE),
            gatekeeper_enabled |-> PyNone,
            sip_enabled |-> PyNone])

\* collectors/macos/security.py
MacSecurityData ==
    PyDict([antivirus |-> EmptyList,
            firewall |-> PyDict([domain_enabled |-> PyNone, private_enabled |-> PyNone,
                                 public_enabled |-> PyBool(TRUE)]),
            uac_enabled |-> PyNone,
            encryption |-> PyDict([filevault_enabled |-> PyBool(TRUE)]),
            windows_defender |-> PyNone,
            secure_boot_enabled |-> PyNone,
            gatekeeper_enabled |-> PyBool(TRUE),
            sip_enabled |-> PyBool(TRUE)])

\* collectors/windows/antivirus.py: SecurityCenter2 answered, or it did not (products == [])
AntivirusVariants ==
    { PyDict([products |-> PyList(<<PyDict([name |-> PyStr("ESET"), enabled |-> PyBool(FALSE),
                                            exe_path |-> PyStr("egui.exe")])>>),
              defender |-> PyDict([enabled |-> PyBool(FALSE), real_time_protection |-> PyBool(FALSE)]),
              any_active |-> PyBool(FALSE)]),
      PyDict([products |-> EmptyList,
              defender |-> PyDict([enabled |-> PyNone, real_time_protection |-> PyNone]),
              any_active |-> PyBool(FALSE)]) }

AntivirusData ==
    PyDict([products |-> PyList(<<PyDict([name |-> PyStr("ESET"), enabled |-> PyBool(FALSE),
                                          exe_path |-> PyStr("egui.exe")])>>),
            defender |-> PyDict([enabled |-> PyBool(FALSE), real_time_protection |-> PyBool(FALSE)]),
            any_active |-> PyBool(FALSE)])

\* collectors/windows/startup.py
StartupEntries ==
    PyList(<<PyDict([name |-> PyStr("OneDrive"), type |-> PyStr("registry_run"),
                     enabled |-> PyBool(TRUE), location |-> PyStr("HKCU\\Run")]),
             PyDict([name |-> PyStr("Setup"), type |-> PyStr("registry_runonce"),
                     enabled |-> PyBool(TRUE), location |-> PyStr("HKLM\\RunOnce")])>>)

StartupData ==
    PyDict([count |-> PyInt(3),
            entries |-> StartupEntries,
            scheduled_tasks |-> PyList(<<PyDict([name |-> PyStr("Updater"), path |-> PyStr("\\Vendor\\"),
                                                 state |-> PyInt(3), trigger_type |-> PyStr("LogonTrigger")])>>),
            count_by_type |-> PyDict([registry_run |-> PyInt(1), registry_runonce |-> PyInt(1),
                                      scheduled_task |-> PyInt(1)])])

\* collectors/windows/network.py, collectors/macos/network.py
PlatNetworkData(ssid) ==
    PyDict([adapters |-> PyList(<<PyDict([name |-> PyStr("Wi-Fi")])>>),
            wifi_ssid |-> PyStr(ssid),
            dns_servers |-> PyList(<<PyStr("10.0.0.1")>>),
            default_gateway |-> PyStr("10.0.0.254")])

\* collectors/windows/logs.py, collectors/macos/logs.py
LogsData ==
    PyDict([recent_errors |-> EmptyList,
            recent_warnings |-> EmptyList,
            failed_logins |-> PyList(<<PyDict([time |-> PyStr("t")]), PyDict([time |-> PyStr("t")]),
                                       PyDict([time |-> PyStr("t")]), PyDict([time |-> PyStr("t")]),
                                       PyDict([time |-> PyStr("t")])>>),
            summary |-> EmptyDict])

\* The data a collector class can return from _collect(), by its name attribute
SuccessData(name) ==
    CASE name = "common.hardware" -> {CommonHardwareData}
      [] name = "common.storage" -> {CommonStorageData}
      [] name = "common.network" -> {CommonNetworkData}
      [] name = "common.uptime" -> {UptimeData}
      [] name = "windows.device_identity" -> {DeviceIdentityData("windows")}
      [] name = "macos.device_identity" -> {DeviceIdentityData("macos")}
      [] name = "windows.hardware" -> {WinHardwareData}
      [] name = "macos.hardware" -> {MacHardwareData}
      [] name = "windows.storage" -> {WinStorageData}
      [] name = "macos.storage" -> {MacStorageData}
      [] name = "windows.os_info" -> {OsDetailData("windows")}
      [] name = "macos.os_info" -> {OsDetailData("macos")}
      [] name = "windows.software" -> {WinSoftwareData}
      [] name = "macos.software" -> {MacSoftwareData}
      [] name = "windows.security" -> {WinSecurityData}
      [] name = "macos.security" -> {MacSecurityData}
      [] name = "windows.antivirus" -> {AntivirusData}
      [] name = "windows.startup" -> {StartupData}
      [] name = "windows.network" -> {PlatNetworkData("corp-wifi")}
      [] name = "macos.network" -> {PlatNetworkData("home-wifi")}
      [] name = "windows.logs" -> {LogsData}
      [] name = "macos.logs" -> {LogsData}

\* Every way one call of _collect() of the collector called name can end
Outcomes(name) ==
    {Returns(d) : d \in SuccessData(name)} \cup {Raises(c) : c \in CausesOf(name)}

(***************************************************************************)
(* Unwanted-software matcher (report/unwanted_software.py)                 *)
(***************************************************************************)
\* config/unwanted_apps.yaml as load_patterns() returns it
UnwantedPatterns ==
    <<PyDict([name |-> PyStr("torrent"), category |-> PyStr("P2P"),
              reason |-> PyStr("file sharing"), severity |-> PyStr("high")]),
      PyDict([name |-> PyStr("uTorrent"), category |-> PyStr("P2P client"),
              reason |-> PyStr("bundled adware"), severity |-> PyStr("medium")]),
      PyDict([name |-> PyStr("Toolbar"), category |-> PyStr("Browser add-on"),
              reason |-> PyStr("unwanted toolbar"), severity |-> PyStr("low")]),
      PyDict([name |-> PyStr("KeyGen"), category |-> PyStr("Crack"),
              reason |-> PyStr("licence circumvention"), severity |-> PyStr("critical")])>>

\* str.lower() on the names and patterns of the model
Lower(s) ==
    CASE s = "uTorrent" -> "utorrent"
      [] s = "Safari" -> "safari"
      [] s = "Toolbar" -> "toolbar"
      [] s = "KeyGen" -> "keygen"
      [] s = "Ask Toolbar" -> "ask toolbar"
      [] s = "Office KeyGen" -> "office keygen"
      [] s = "ASK TOOLBAR" -> "ask toolbar"
      [] OTHER -> s

\* pattern in name, for lower-cased strings of the model
Contains(pattern, name) ==
    \/ pattern = ""
    \/ pattern = name
    \/ <<pattern, name>> \in {<<"torrent", "utorrent">>, <<"toolbar", "ask toolbar">>,
                               <<"keygen", "office keygen">>}

\* the match record of match_installed (unwanted_software.py 62-68)
MatchRecord(app_name, entry) ==
    PyDict([installed_name |-> app_name,
            pattern |-> Or(Get1(entry, "name"), PyStr("")),
            category |-> Get(entry, "category", PyStr("Uncategorized")),
            reason |-> Get(entry, "reason", PyStr("")),
            severity |-> Get(entry, "severity", PyStr("medium"))])

RECURSIVE FirstMatch_NoBreak(_, _, _)
\* the inner loop without its break: one record per matching pattern
FirstMatch_NoBreak(patterns, app_name, i) ==
    IF i > Len(patterns) THEN <<>>
    ELSE (IF Contains(Lower(Or(Get1(patterns[i], "name"), PyStr("")).str), Lower(app_name.str))
          THEN <<MatchRecord(app_name, patterns[i])>> ELSE <<>>)
         \o FirstMatch_NoBreak(patterns, app_name, i + 1)

RECURSIVE FirstMatch(_, _, _)
\* the inner loop of match_installed: first pattern, in table order, found in the name
FirstMatch(patterns, app_name, i) ==
    IF i > Len(patterns) THEN <<>>
    ELSE LET entry == patterns[i]
             pattern == Or(Get1(entry, "name"), PyStr(""))
         IN IF Contains(Lower(pattern.str), Lower(app_name.str))
            THEN <<PyDict([installed_name |-> app_name,
                           pattern |-> pattern,
                           category |-> Get(entry, "category", PyStr("Uncategorized")),
                           reason |-> Get(entry, "reason", PyStr("")),
                           severity |-> Get(entry, "severity", PyStr("medium"))])>>
            ELSE FirstMatch(patterns, app_name, i + 1)

RECURSIVE MatchFrom(_, _, _)
MatchFrom(installed, patterns, i) ==
    IF i > Len(installed) THEN <<>>
    ELSE FirstMatch(patterns, Or(Get1(installed[i], "name"), PyStr("")), 1)
         \o MatchFrom(installed, patterns, i + 1)

\* the configuration files of the model: the shipped table, a path that does not exist,
\* an empty YAML document, a document whose patterns key is null, and a table whose
\* entries leave out optional keys (one of them the name)
ConfigPaths == {"config/unwanted_apps.yaml", "missing.yaml", "empty.yaml", "null.yaml", "sparse.yaml"}

\* yaml.safe_load of an existing file; None for an empty document
SafeLoad(config_path) ==
    CASE config_path = "config/unwanted_apps.yaml" -> PyDict([patterns |-> PyList(UnwantedPatterns)])
      [] config_path = "null.yaml" -> PyDict([patterns |-> PyNone])
      [] config_path = "sparse.yaml" ->
           PyDict([patterns |-> PyList(<<PyDict([name |-> PyStr("Safari")]),
                                        PyDict([severity |-> PyStr("low")])>>)])
      [] OTHER -> PyNone

\* load_patterns(config_path): [] when the file does not exist
load_patterns(config_path) ==
    IF config_path = "missing.yaml" THEN EmptyList
    ELSE Get(Or(SafeLoad(config_path), EmptyDict), "patterns", EmptyList)

\* match_installed(installed, config_path)
match_installed_from(installed, config_path) ==
    LET patterns == load_patterns(config_path)
    IN IF ~Truthy(patterns) THEN <<>>
       ELSE MatchFrom(installed.list, patterns.list, 1)

\* match_installed(installed), with the default config_path
match_installed(installed) == match_installed_from(installed, "config/unwanted_apps.yaml")

(***************************************************************************)
(* Findings engine (report/findings.py)                                    *)
(***************************************************************************)
_SEVERITY_WEIGHTS == [low |-> 5, medium |-> 15, high |-> 30, critical |-> 50]

Finding(id, severity, title, detail) ==
    PyDict([id |-> PyStr(id), severity |-> PyStr(severity),
            title |-> PyStr(title), detail |-> PyStr(detail)])

\* [x for x in seq if x.get(key)]
WhereTruthy(seq, key) ==
    LET Test(x) == Truthy(Get1(x, key)) IN SelectSeq(seq, Test)

\* SEC-001 that fires as soon as one product is disabled
RuleSEC001_AnyDisabled(security) ==
    LET av_list == Get(security, "antivirus", EmptyList)
        active_av == WhereTruthy(av_list.list, "enabled")
    IN IF Len(active_av) < Len(av_list.list) \/ Len(av_list.list) = 0
       THEN <<Finding("SEC-001", "high", "No active antivirus detected",
                      "No enabled antivirus product was found via SecurityCenter2.")>>
       ELSE <<>>

\* SEC-001: no active antivirus
RuleSEC001(security) ==
    LET av_list == Get(security, "antivirus", EmptyList)
        active_av == WhereTruthy(av_list.list, "enabled")
    IN IF Len(active_av) = 0
       THEN <<Finding("SEC-001", "high", "No active antivirus detected",
                      "No enabled antivirus product was found via SecurityCenter2.")>>
       ELSE <<>>

\* SEC-002: UAC disabled (is False)
RuleSEC002(security) ==
    IF Get1(security, "uac_enabled") = PyBool(FALSE)
    THEN <<Finding("SEC-002", "high", "UAC is disabled",
                   "User Account Control (EnableLUA) is set to 0 in the registry.")>>
    ELSE <<>>

\* SEC-003: public firewall disabled (is False)
RuleSEC003(security) ==
    LET fw == Get(security, "firewall", EmptyDict)
    IN IF Get1(fw, "public_enabled") = PyBool(FALSE)
       THEN <<Finding("SEC-003", "high", "Public firewall profile is disabled",
                      "The Windows Firewall public profile is not active.")>>
       ELSE <<>>

\* SEC-004 that reports every unprotected volume separately
RuleSEC004_PerVolume(security) ==
    LET bl_vols == Get(Get(security, "encryption", EmptyDict), "bitlocker_volumes", EmptyList)
        Unprotected(v) == Get1(v, "protection_status") \notin {PyInt(1), PyBool(TRUE)}
        unprotected == SelectSeq(bl_vols.list, Unprotected)
    IN [i \in 1..Len(unprotected) |->
          Finding("SEC-004", "medium", "BitLocker not active on all volumes",
                  "1 volume(s) lack active BitLocker protection.")]

\* SEC-004: BitLocker not active on all volumes
RuleSEC004(security) ==
    LET bl_vols == Get(Get(security, "encryption", EmptyDict), "bitlocker_volumes", EmptyList)
        Unprotected(v) == Get1(v, "protection_status") \notin {PyInt(1), PyBool(TRUE)}
        unprotected == SelectSeq(bl_vols.list, Unprotected)
    IN IF Truthy(bl_vols) /\ Len(unprotected) # 0
       THEN <<Finding("SEC-004", "medium", "BitLocker not active on all volumes",
                      ToString(Len(unprotected)) \o " volume(s) lack active BitLocker protection.")>>
       ELSE <<>>

\* SEC-005 with the thresholds compared with > instead of >=
RuleSEC005_Exclusive(logs) ==
    LET failed_logins == Get(logs, "failed_logins", EmptyList)
        count == Len(failed_logins.list)
    IN IF count > 5
       THEN <<Finding("SEC-005", IF count > 10 THEN "high" ELSE "medium",
                      "Multiple failed login attempts detected",
                      ToString(count) \o " failed login event(s) found in the Security log.")>>
       ELSE <<>>

\* SEC-005: failed login attempts
RuleSEC005(logs) ==
    LET failed_logins == Get(logs, "failed_logins", EmptyList)
        count == Len(failed_logins.list)
    IN IF count >= 5
       THEN <<Finding("SEC-005", IF count >= 10 THEN "high" ELSE "medium",
                      "Multiple failed login attempts detected",
                      ToString(count) \o " failed login event(s) found in the Security log.")>>
       ELSE <<>>

\* SYS-001 with the thresholds compared with >= instead of >
RuleSYS001_Inclusive(reboot) ==
    LET uptime_days == Or(Get(Or(Get1(reboot, "uptime"), EmptyDict), "days", PyInt(0)), PyInt(0)).int
        detail == "System has been running for " \o ToString(uptime_days) \o " days without a reboot."
    IN IF uptime_days >= 60
       THEN <<Finding("SYS-001", "high", "System uptime exceeds 60 days", detail)>>
       ELSE IF uptime_days >= 30
       THEN <<Finding("SYS-001", "medium", "System uptime exceeds 30 days", detail)>>
       ELSE <<>>

\* SYS-001: long uptime
RuleSYS001(reboot) ==
    LET uptime_days == Or(Get(Or(Get1(reboot, "uptime"), EmptyDict), "days", PyInt(0)), PyInt(0)).int
        detail == "System has been running for " \o ToString(uptime_days) \o " days without a reboot."
    IN IF uptime_days > 60
       THEN <<Finding("SYS-001", "high", "System uptime exceeds 60 days", detail)>>
       ELSE IF uptime_days > 30
       THEN <<Finding("SYS-001", "medium", "System uptime exceeds 30 days", detail)>>
       ELSE <<>>

RECURSIVE WrapMatches(_, _)
\* SWU-001: one finding per match record
WrapMatches(matches, i) ==
    IF i > Len(matches) THEN <<>>
    ELSE LET match == matches[i]
         IN <<PyDict([id |-> PyStr("SWU-001"),
                      severity |-> match.dict["severity"],
                      title |-> PyStr("Unwanted software detected: " \o match.dict["installed_name"].str),
                      detail |-> PyStr("Matched pattern '" \o match.dict["pattern"].str \o "' ["
                                       \o match.dict["category"].str \o "]: "
                                       \o match.dict["reason"].str)])>>
            \o WrapMatches(matches, i + 1)

RuleSWU001(rpt) ==
    LET installed == Get(Or(Get1(rpt, "software"), EmptyDict), "installed", EmptyList)
    IN WrapMatches(match_installed(installed), 1)

RECURSIVE RuleSYS002_Inclusive(_, _)
\* SYS-002 with the thresholds compared with >= instead of >
RuleSYS002_Inclusive(storage, i) ==
    IF i > Len(storage) THEN <<>>
    ELSE LET disk == storage[i]
             pct == Or(Get1(disk, "percent_used"), PyInt(0)).int
             mp == Get(disk, "mountpoint", PyStr("?")).str
         IN (IF pct >= 95
             THEN <<Finding("SYS-002", "high", "Disk critically full: " \o mp,
                            mp \o " is " \o ToString(pct) \o "% full (>95%).")>>
             ELSE IF pct >= 90
             THEN <<Finding("SYS-002", "medium", "Disk nearly full: " \o mp,
                            mp \o " is " \o ToString(pct) \o "% full (>90%).")>>
             ELSE <<>>)
            \o RuleSYS002_Inclusive(storage, i + 1)

RECURSIVE RuleSYS002(_, _)
\* SYS-002: disk nearly / critically full, per volume
RuleSYS002(storage, i) ==
    IF i > Len(storage) THEN <<>>
    ELSE LET disk == storage[i]
             pct == Or(Get1(disk, "percent_used"), PyInt(0)).int
             mp == Get(disk, "mountpoint", PyStr("?")).str
         IN (IF pct > 95
             THEN <<Finding("SYS-002", "high", "Disk critically full: " \o mp,
                            mp \o " is " \o ToString(pct) \o "% full (>95%).")>>
             ELSE IF pct > 90
             THEN <<Finding("SYS-002", "medium", "Disk nearly full: " \o mp,
                            mp \o " is " \o ToString(pct) \o "% full (>90%).")>>
             ELSE <<>>)
            \o RuleSYS002(storage, i + 1)

RECURSIVE SumWeights(_, _)
\* sum(_SEVERITY_WEIGHTS.get(f["severity"], 0) for f in findings)
SumWeights(findings, i) ==
    IF i > Len(findings) THEN 0
    ELSE LET sev == findings[i].dict["severity"].str
         IN (IF sev \in DOMAIN _SEVERITY_WEIGHTS THEN _SEVERITY_WEIGHTS[sev] ELSE 0)
            + SumWeights(findings, i + 1)

Min(a, b) == IF a < b THEN a ELSE b

\* the banding with every threshold one point too low
LevelOf_Inclusive(score) ==
    IF score >= 60 THEN "critical"
    ELSE IF score >= 30 THEN "high"
    ELSE IF score >= 10 THEN "medium"
    ELSE "low"

\* score -> level banding
LevelOf(score) ==
    IF score >= 61 THEN "critical"
    ELSE IF score >= 31 THEN "high"
    ELSE IF score >= 11 THEN "medium"
    ELSE "low"

\* the findings list of compute_findings, in rule-evaluation order
FindingsOf(rpt) ==
    LET security == Get(rpt, "security", EmptyDict)
        logs == Get(rpt, "logs", EmptyDict)
        reboot == Get(rpt, "reboot", EmptyDict)
        storage == Get(rpt, "storage", EmptyList)
    IN RuleSEC001(security) \o RuleSEC002(security) \o RuleSEC003(security)
       \o RuleSEC004(security) \o RuleSEC005(logs) \o RuleSYS001(reboot)
       \o RuleSWU001(rpt) \o RuleSYS002(storage.list, 1)

\* the risk_score dict without the cap at 100
RiskScoreOf_Uncapped(findings) ==
    LET score == SumWeights(findings, 1)
    IN PyDict([score |-> PyInt(score),
               level |-> PyStr(LevelOf(score)),
               factors |-> PyList([i \in 1..Len(findings) |-> findings[i].dict["id"]])])

\* the risk_score dict whose factors list only the high and critical findings
RiskScoreOf_SevereFactors(findings) ==
    LET total == SumWeights(findings, 1)
        score == Min(100, total)
        Severe(f) == f.dict["severity"].str \in {"high", "critical"}
        severe == SelectSeq(findings, Severe)
    IN PyDict([score |-> PyInt(score),
               level |-> PyStr(LevelOf(score)),
               factors |-> PyList([i \in 1..Len(severe) |-> severe[i].dict["id"]])])

\* the risk_score dict of compute_findings
RiskScoreOf(findings) ==
    LET total == SumWeights(findings, 1)
        score == Min(100, total)
    IN PyDict([score |-> PyInt(score),
               level |-> PyStr(LevelOf(score)),
               factors |-> PyList([i \in 1..Len(findings) |-> findings[i].dict["id"]])])

\* compute_findings(report) -> (findings, risk_score)
compute_findings(rpt) ==
    LET findings == FindingsOf(rpt)
    IN [findings |-> PyList(findings), risk_score |-> RiskScoreOf(findings)]

(***************************************************************************)
(* Recommendations engine (recommendations/engine.py)                      *)
(***************************************************************************)
_SEVERITY_WEIGHT == [critical |-> 30, warning |-> 10, info |-> 2]

Recommendation(severity, title) == PyDict([severity |-> PyStr(severity), title |-> PyStr(title)])

RECURSIVE CheckDisksFrom(_, _)
CheckDisksFrom(volumes, i) ==
    IF i > Len(volumes) THEN <<>>
    ELSE LET pct == Get1(volumes[i], "percent_used")
         IN (IF IsNone(pct) THEN <<>>
             ELSE IF pct.int > 90 THEN <<Recommendation("critical", "Disk critically full")>>
             ELSE IF pct.int > 80 THEN <<Recommendation("warning", "Disk nearly full")>>
             ELSE <<>>)
            \o CheckDisksFrom(volumes, i + 1)

\* _check_disks
_check_disks(rpt) ==
    CheckDisksFrom(Or(Or(Get1(rpt, "storage"), Get1(rpt, "disks")), EmptyList).list, 1)

\* _check_uptime
_check_uptime(rpt) ==
    LET uptime == Or(Get1(Or(Get1(rpt, "reboot"), EmptyDict), "uptime"), EmptyDict)
        days == Or(Get(uptime, "days", PyInt(0)), PyInt(0)).int
    IN IF days > 90 THEN <<Recommendation("critical", "System uptime critically high")>>
       ELSE IF days > 30 THEN <<Recommendation("warning", "System uptime high")>>
       ELSE <<>>

\* _check_antivirus
_check_antivirus(rpt) ==
    LET av_list == Or(Get1(Or(Get1(rpt, "security"), EmptyDict), "antivirus"), EmptyList)
    IN IF Len(WhereTruthy(av_list.list, "enabled")) = 0
       THEN <<Recommendation("critical", "No antivirus detected")>>
       ELSE <<>>

\* len(x) of a list or a dict
PyLen(x) == IF IsList(x) THEN Len(x.list) ELSE Cardinality(DOMAIN x.dict)

\* _check_startup
_check_startup(rpt) ==
    LET software == Or(Get1(rpt, "software"), EmptyDict)
        entries == Or(Or(Get1(software, "startup_entries"), Get1(rpt, "startup")), PyNone)
    IN IF IsNone(entries) THEN <<>>
       ELSE IF PyLen(entries) > 8 THEN <<Recommendation("warning", "Too many startup items")>>
       ELSE <<>>

\* findings.sort(key=severity order): a stable sort on critical, warning, info
SortBySeverityOrder(findings) ==
    LET Crit(f) == f.dict["severity"].str = "critical"
        Warn(f) == f.dict["severity"].str = "warning"
        Info(f) == f.dict["severity"].str = "info"
        Rest(f) == f.dict["severity"].str \notin {"critical", "warning", "info"}
    IN SelectSeq(findings, Crit) \o SelectSeq(findings, Warn)
       \o SelectSeq(findings, Info) \o SelectSeq(findings, Rest)

RECURSIVE SumRecWeights(_, _)
SumRecWeights(findings, i) ==
    IF i > Len(findings) THEN 0
    ELSE _SEVERITY_WEIGHT[findings[i].dict["severity"].str] + SumRecWeights(findings, i + 1)

\* analyze(report) -> {"risk_score", "findings"}
compute_recommendations(rpt) ==
    LET findings == SortBySeverityOrder(_check_disks(rpt) \o _check_uptime(rpt)
                                        \o _check_antivirus(rpt) \o _check_startup(rpt))
    IN PyDict([risk_score |-> PyInt(Min(SumRecWeights(findings, 1), 100)),
               findings |-> PyList(findings)])

(***************************************************************************)
(* Report assembler (cli._assemble_report)                                 *)
(***************************************************************************)
__version__ == "2.0.0"

\* the enrichment choice that looks at the macOS variant first
plat_variant_MacFirst(results, win_label, mac_label) ==
    Or(Get(results, mac_label, EmptyDict), Get(results, win_label, EmptyDict))

\* win_x or mac_x: the platform enrichment of one section
plat_variant(results, win_label, mac_label) ==
    Or(Get(results, win_label, EmptyDict), Get(results, mac_label, EmptyDict))

\* the hardware merge in which the baseline fields win over the platform ones
hw_section_BaselineWins(common_hw, results) ==
    LET plat_hw == plat_variant(results, "_win_hardware", "_mac_hardware")
        common_cpu == Or(Get1(common_hw, "cpu"), EmptyDict)
        common_ram == Or(Get1(common_hw, "ram"), EmptyDict)
        plat_cpu == Or(Get1(plat_hw, "cpu"), EmptyDict)
        plat_ram == Or(Get1(plat_hw, "ram"), EmptyDict)
    IN PyDict([cpu |-> Merge(plat_cpu, common_cpu),
               ram |-> Merge(plat_ram, common_ram),
               gpu |-> Get(plat_hw, "gpu", EmptyList),
               motherboard |-> Get(plat_hw, "motherboard", EmptyDict),
               bios |-> Get(plat_hw, "bios", EmptyDict),
               tpm |-> Get(plat_hw, "tpm", EmptyDict),
               secure_boot |-> Get(plat_hw, "secure_boot", EmptyDict),
               monitors |-> Get(plat_hw, "monitors", EmptyList),
               printers |-> Get(plat_hw, "printers", EmptyList)])

\* Hardware: common psutil data merged with the platform detail
hw_section(common_hw, results) ==
    LET plat_hw == plat_variant(results, "_win_hardware", "_mac_hardware")
        common_cpu == Or(Get1(common_hw, "cpu"), EmptyDict)
        common_ram == Or(Get1(common_hw, "ram"), EmptyDict)
        plat_cpu == Or(Get1(plat_hw, "cpu"), EmptyDict)
        plat_ram == Or(Get1(plat_hw, "ram"), EmptyDict)
    IN PyDict([cpu |-> Merge(common_cpu, plat_cpu),
               ram |-> Merge(common_ram, plat_ram),
               gpu |-> Get(plat_hw, "gpu", EmptyList),
               motherboard |-> Get(plat_hw, "motherboard", EmptyDict),
               bios |-> Get(plat_hw, "bios", EmptyDict),
               tpm |-> Get(plat_hw, "tpm", EmptyDict),
               secure_boot |-> Get(plat_hw, "secure_boot", EmptyDict),
               monitors |-> Get(plat_hw, "monitors", EmptyList),
               printers |-> Get(plat_hw, "printers", EmptyList)])

\* Storage: the platform volumes when there is platform storage data, else psutil's
storage_list(common_storage, results) ==
    LET plat_storage == plat_variant(results, "_win_storage", "_mac_storage")
    IN IF Truthy(plat_storage)
       THEN Get1(plat_storage, "logical_volumes")
       ELSE Get(common_storage, "partitions", EmptyList)

physical_disks(results) ==
    LET plat_storage == plat_variant(results, "_win_storage", "_mac_storage")
    IN IF Truthy(plat_storage) THEN Get(plat_storage, "physical_disks", EmptyList) ELSE EmptyList

\* Network: psutil interfaces plus the platform adapter detail
net_section(common_net, results) ==
    LET plat_net == plat_variant(results, "_win_network", "_mac_network")
    IN PyDict([interfaces |-> Get(common_net, "interfaces", EmptyList),
               adapters |-> Get(plat_net, "adapters", EmptyList),
               wifi_ssid |-> Get1(plat_net, "wifi_ssid"),
               dns_servers |-> Get(plat_net, "dns_servers", EmptyList),
               default_gateway |-> Get1(plat_net, "default_gateway")])

\* d.setdefault(k, {}) as the dict afterwards
SetDefault(d, k) == IF Has(d, k) THEN d ELSE SetItem(d, k, EmptyDict)

\* the startup merge that adds the entries to those software already lists
merge_startup_Appending(results) ==
    LET startup_data == Or(Get1(results, "_startup"), EmptyDict)
    IN IF Truthy(startup_data)
       THEN LET r1 == SetDefault(results, "software")
            IN SetItem(r1, "software",
                       SetItem(r1.dict["software"], "startup_entries",
                               Extend(Get(r1.dict["software"], "startup_entries", EmptyList),
                                      Get(startup_data, "entries", EmptyList))))
       ELSE results

\* the startup merge that copies the entries only into a software dict that has data
merge_startup_OnlyIfSoftware(results) ==
    LET startup_data == Or(Get1(results, "_startup"), EmptyDict)
    IN IF Truthy(startup_data) /\ Truthy(Get(results, "software", EmptyDict))
       THEN SetItem(results, "software",
                    SetItem(results.dict["software"], "startup_entries",
                            Get(startup_data, "entries", EmptyList)))
       ELSE results

\* Startup merge: platform_results after software.startup_entries is put in sync
merge_startup(results) ==
    LET startup_data == Or(Get1(results, "_startup"), EmptyDict)
    IN IF Truthy(startup_data)
       THEN LET r1 == SetDefault(results, "software")
            IN SetItem(r1, "software",
                       SetItem(r1.dict["software"], "startup_entries",
                               Get(startup_data, "entries", EmptyList)))
       ELSE results

\* Antivirus merge that overwrites only with a non-empty products list
merge_antivirus_KeepWhenEmpty(results) ==
    LET antivirus_data == Or(Get1(results, "_antivirus"), EmptyDict)
    IN IF Truthy(antivirus_data)
       THEN LET r1 == SetDefault(results, "security")
                sec0 == r1.dict["security"]
                sec1 == IF Truthy(Get1(antivirus_data, "products"))
                        THEN SetItem(sec0, "antivirus", antivirus_data.dict["products"])
                        ELSE sec0
                sec2 == IF Truthy(Get1(antivirus_data, "defender"))
                        THEN SetItem(sec1, "windows_defender", antivirus_data.dict["defender"])
                        ELSE sec1
            IN SetItem(r1, "security", sec2)
       ELSE results

\* Antivirus merge: platform_results after the dedicated collector overwrote security
merge_antivirus(results) ==
    LET antivirus_data == Or(Get1(results, "_antivirus"), EmptyDict)
    IN IF Truthy(antivirus_data)
       THEN LET r1 == SetDefault(results, "security")
                sec0 == r1.dict["security"]
                sec1 == IF ~IsNone(Get1(antivirus_data, "products"))
                        THEN SetItem(sec0, "antivirus", antivirus_data.dict["products"])
                        ELSE sec0
                sec2 == IF Truthy(Get1(antivirus_data, "defender"))
                        THEN SetItem(sec1, "windows_defender", antivirus_data.dict["defender"])
                        ELSE sec1
            IN SetItem(r1, "security", sec2)
       ELSE results

\* the v2 sections with the default of device_identity forgotten
v2_sections_NoDefault(common_hw, common_storage, common_net, results, errors, now_utc, uuid4) ==
    PyDict([schema_version |-> PyStr("2.0"),
            agent_version |-> PyStr(__version__),
            run_id |-> PyStr(uuid4),
            collected_at |-> PyStr(now_utc),
            device_identity |-> Get1(results, "device_identity"),
            hardware |-> hw_section(common_hw, results),
            physical_disks |-> physical_disks(results),
            storage |-> storage_list(common_storage, results),
            network |-> net_section(common_net, results),
            os_detail |-> Get(results, "os_detail", EmptyDict),
            software |-> Get(results, "software",
                             PyDict([installed |-> EmptyList, count |-> PyInt(0)])),
            startup |-> Get(results, "_startup", EmptyDict),
            security |-> Get(results, "security", EmptyDict),
            logs |-> Get(results, "logs", EmptyDict),
            findings |-> EmptyList,
            risk_score |-> PyDict([score |-> PyInt(0), level |-> PyStr("low"),
                                   factors |-> EmptyList]),
            errors |-> errors])

\* the report dict literal, identification and v2 sections (cli.py 283-301)
v2_sections(common_hw, common_storage, common_net, results, errors, now_utc, uuid4) ==
    PyDict([schema_version |-> PyStr("2.0"),
            agent_version |-> PyStr(__version__),
            run_id |-> PyStr(uuid4),
            collected_at |-> PyStr(now_utc),
            device_identity |-> Get(results, "device_identity", EmptyDict),
            hardware |-> hw_section(common_hw, results),
            physical_disks |-> physical_disks(results),
            storage |-> storage_list(common_storage, results),
            network |-> net_section(common_net, results),
            os_detail |-> Get(results, "os_detail", EmptyDict),
            software |-> Get(results, "software",
                             PyDict([installed |-> EmptyList, count |-> PyInt(0)])),
            startup |-> Get(results, "_startup", EmptyDict),
            security |-> Get(results, "security", EmptyDict),
            logs |-> Get(results, "logs", EmptyDict),
            findings |-> EmptyList,
            risk_score |-> PyDict([score |-> PyInt(0), level |-> PyStr("low"),
                                   factors |-> EmptyList]),
            errors |-> errors])

\* the legacy keys with disks taken from the psutil partitions, as v1 did
legacy_keys_DisksFromCommon(common_storage, uptime, results, legacy, now_utc) ==
    PyDict([snapshot |-> PyDict([generated_at_utc |-> Get(uptime, "snapshot_utc", PyStr(now_utc)),
                                 tool_version |-> PyStr(__version__)]),
            os |-> legacy,
            reboot |-> uptime,
            disks |-> Get(common_storage, "partitions", EmptyList)])

\* the report dict literal, legacy v1 keys (cli.py 302-309)
legacy_keys(common_storage, uptime, results, legacy, now_utc) ==
    PyDict([snapshot |-> PyDict([generated_at_utc |-> Get(uptime, "snapshot_utc", PyStr(now_utc)),
                                 tool_version |-> PyStr(__version__)]),
            os |-> legacy,
            reboot |-> uptime,
            disks |-> storage_list(common_storage, results)])

\* the report dict literal (cli.py 283-310), before findings are computed
\* the report literal without its "findings" and "risk_score" placeholders
report_literal_NoPlaceholders(common_hw, common_storage, common_net, uptime, results, legacy, errors, now_utc, uuid4) ==
    LET whole == Merge(v2_sections(common_hw, common_storage, common_net, results, errors, now_utc, uuid4),
                       legacy_keys(common_storage, uptime, results, legacy, now_utc))
    IN PyDict([k \in DOMAIN whole.dict \ {"findings", "risk_score"} |-> whole.dict[k]])

report_literal(common_hw, common_storage, common_net, uptime, results, legacy, errors, now_utc, uuid4) ==
    Merge(v2_sections(common_hw, common_storage, common_net, results, errors, now_utc, uuid4),
          legacy_keys(common_storage, uptime, results, legacy, now_utc))

\* _assemble_report: the returned report, and platform_results as the call leaves it
_assemble_report(common_hw, common_storage, common_net, uptime, results, legacy, errors, now_utc, uuid4) ==
    LET merged == merge_antivirus(merge_startup(results))
        rep0 == report_literal(common_hw, common_storage, common_net, uptime, merged,
                               legacy, errors, now_utc, uuid4)
        cf == compute_findings(rep0)
        rep1 == SetItem(SetItem(rep0, "findings", cf.findings), "risk_score", cf.risk_score)
        rep2 == SetItem(rep1, "recommendations", compute_recommendations(rep1))
    IN [report |-> rep2, platform_results |-> merged]

(***************************************************************************)
(* Clock and entropy                                                       *)
(***************************************************************************)
\* datetime.now(timezone.utc) at the n-th reading: the clock never repeats a reading
NowEpoch(n) == 1771113601 + n
NowIso(n) == "2026-02-15T00:00:0" \o ToString(1 + n) \o "+00:00"

\* str(uuid.uuid4()) at the n-th draw
Uuid4(n) == "uuid-" \o ToString(n)

(***************************************************************************)
(* Maintenance analyzers (maintenance/analyzers) and generator             *)
(***************************************************************************)
\* str.upper() on the filesystem types of the model
Upper(s) ==
    CASE s = "ntfs" -> "NTFS"
      [] s = "apfs" -> "APFS"
      [] OTHER -> s

\* drive.rstrip("\\").rstrip("/").rstrip(":")[-1], "C" when nothing is left
DriveLetterOf(drive) ==
    CASE drive = "C:\\" -> "C"
      [] drive = "D:\\" -> "D"
      [] drive = "/" -> "C"
      [] drive = "?" -> "?"
      [] OTHER -> "1"

TempPriority(pct) ==
    IF pct > 80 THEN "high" ELSE IF pct > 50 THEN "medium" ELSE "low"

\* the suggestion dict appended by analyze_temp_cleanup for one NTFS volume
TempSuggestion(volume) ==
    LET drive == Or(Or(Get1(volume, "drive_letter"), Get1(volume, "device")), PyStr("?")).str
        pct == Or(Get1(volume, "percent_used"), PyInt(0)).int
        dl == DriveLetterOf(drive)
    IN PyDict([id |-> PyStr("MAINT-TMP-001"),
               priority |-> PyStr(TempPriority(pct)),
               safe_to_automate |-> PyBool(FALSE),
               title |-> PyStr("Clear Windows temporary files on " \o drive),
               rationale |-> PyStr(drive \o " is " \o ToString(pct) \o "% full"),
               paths_to_review |-> PyList(<<PyStr("%TEMP%"),
                                            PyStr(dl \o ":\\Windows\\Temp"),
                                            PyStr(dl \o ":\\Windows\\SoftwareDistribution\\Download")>>),
               estimated_recoverable_gb |-> PyNone,
               action |-> PyDict([type |-> PyStr("suggest_only"),
                                  description |-> PyStr("Manually delete contents of standard temp folders"),
                                  manual_steps |-> PyList(<<
                                      PyStr("Press Win+R, type %TEMP%, press Enter"),
                                      PyStr("Press Win+R, type " \o dl \o ":\\Windows\\Temp, press Enter"),
                                      PyStr("Alternatively: run 'cleanmgr /d " \o dl \o ":'")>>)])])

RECURSIVE TempFrom(_, _)
TempFrom(storage, i) ==
    IF i > Len(storage) THEN <<>>
    ELSE (IF Upper(Get(storage[i], "fstype", PyStr("")).str) # "NTFS"
          THEN <<>>
          ELSE <<TempSuggestion(storage[i])>>)
         \o TempFrom(storage, i + 1)

\* analyze_temp_cleanup(report)
analyze_temp_cleanup(rpt) == TempFrom(Or(Get1(rpt, "storage"), EmptyList).list, 1)

_EXEMPT == {"egui", "securityhealth", "globalprotect", "keepass", "keepass 2"}

_OPTIONAL_PATTERNS ==
    <<"microsoftedge", "opera", "googledrivefs", "onedrive", "clickshare", "adobecollabsync",
      "adobe acrobat sync", "ituneshelper", "claude", "teams">>

\* name.lower() on the startup names of the model
LowerName(s) ==
    CASE s = "OneDrive" -> "onedrive"
      [] s = "Setup" -> "setup"
      [] s = "OldRun" -> "oldrun"
      [] s = "Updater" -> "updater"
      [] s = "KeePass 2 PreLoad" -> "keepass 2 preload"
      [] s = "OneDrive KeePass" -> "onedrive keepass"
      [] s = "\\Vendor\\Updater" -> "\\vendor\\updater"
      [] s = "\\Microsoft\\Windows\\Defrag" -> "\\microsoft\\windows\\defrag"
      [] OTHER -> s

\* needle in haystack, for the lower-cased startup names of the model
InName(needle, haystack) ==
    \/ needle = haystack
    \/ <<needle, haystack>> \in
         {<<"keepass", "keepass 2 preload">>, <<"keepass 2", "keepass 2 preload">>,
          <<"keepass", "onedrive keepass">>, <<"onedrive", "onedrive keepass">>}

\* an exemption test that needs the whole name to be in the table
_is_exempt_WholeName(name) == LowerName(name) \in _EXEMPT

\* _is_exempt(name)
_is_exempt(name) == \E ex \in _EXEMPT : InName(ex, LowerName(name))

\* _optional_reason(name) is not None
_optional_reason(name) ==
    \E i \in 1..Len(_OPTIONAL_PATTERNS) : InName(_OPTIONAL_PATTERNS[i], LowerName(name))

\* "MAINT-STR-{counter:03d}"
StrId(counter) == "MAINT-STR-" \o (IF counter < 10 THEN "00" ELSE IF counter < 100 THEN "0" ELSE "")
                  \o ToString(counter)

\* _make_suggestion that marks low-priority items as automatable
_make_suggestion_Automatable(sid, priority, title, rationale, entry, manual_steps) ==
    PyDict([id |-> PyStr(sid),
            priority |-> PyStr(priority),
            safe_to_automate |-> PyBool(priority = "low"),
            title |-> PyStr(title),
            rationale |-> PyStr(rationale),
            entry |-> entry,
            action |-> PyDict([type |-> PyStr(IF priority = "low" THEN "auto_disable" ELSE "suggest_only"),
                               description |-> PyStr("Review and disable via Task Manager, Registry Editor, or Task Scheduler"),
                               manual_steps |-> manual_steps])])

\* _make_suggestion(...)
_make_suggestion(sid, priority, title, rationale, entry, manual_steps) ==
    PyDict([id |-> PyStr(sid),
            priority |-> PyStr(priority),
            safe_to_automate |-> PyBool(FALSE),
            title |-> PyStr(title),
            rationale |-> PyStr(rationale),
            entry |-> entry,
            action |-> PyDict([type |-> PyStr("suggest_only"),
                               description |-> PyStr("Review and disable via Task Manager, Registry Editor, or Task Scheduler"),
                               manual_steps |-> manual_steps])])

RECURSIVE StartupEntriesFrom(_, _, _)
\* the loop over startup entries: <<suggestions, counter>>
StartupEntriesFrom(entries, i, counter) ==
    IF i > Len(entries) THEN [suggestions |-> <<>>, counter |-> counter]
    ELSE LET entry == entries[i]
             name == Or(Get1(entry, "name"), PyStr("")).str
             etype == Or(Get1(entry, "type"), PyStr("")).str
             enabled == Get(entry, "enabled", PyBool(TRUE))
             location == Or(Get1(entry, "location"), PyStr("")).str
             made ==
                 IF _is_exempt(name) THEN <<>>
                 ELSE IF etype = "registry_runonce"
                 THEN <<_make_suggestion(StrId(counter), "medium",
                            "Review lingering RunOnce entry: '" \o name \o "'",
                            "Stale RunOnce entries can slow login and indicate unresolved installer issues.",
                            entry,
                            PyList(<<PyStr("Open Registry Editor and navigate to " \o location),
                                     PyStr("Verify whether '" \o name \o "' still needs to run")>>))>>
                 ELSE IF ~Truthy(enabled)
                 THEN <<_make_suggestion(StrId(counter), "info",
                            "Remove disabled startup entry: '" \o name \o "'",
                            "Orphaned disabled entries accumulate over time and clutter startup management tools.",
                            entry,
                            PyList(<<PyStr("Open Registry Editor and navigate to " \o location),
                                     PyStr("Delete the '" \o name \o "' value")>>))>>
                 ELSE IF _optional_reason(name)
                 THEN <<_make_suggestion(StrId(counter), "low",
                            "Consider disabling '" \o name \o "' from startup",
                            "optional",
                            entry,
                            PyList(<<PyStr("Open Task Manager (Ctrl+Shift+Esc) and go to the Startup Apps tab"),
                                     PyStr("Find '" \o name \o "' and click 'Disable'")>>))>>
                 ELSE <<>>
             rest == StartupEntriesFrom(entries, i + 1, counter + Len(made))
         IN [suggestions |-> made \o rest.suggestions, counter |-> rest.counter]

\* full_path.startswith(pfx) for a prefix in _TASK_OS_PREFIXES
IsOsTaskPath(full_path) == full_path \in {"\\microsoft\\windows\\defrag"}

RECURSIVE StartupTasksFrom(_, _, _)
\* the loop over scheduled tasks
StartupTasksFrom(tasks, i, counter) ==
    IF i > Len(tasks) THEN <<>>
    ELSE LET task == tasks[i]
             name == Or(Get1(task, "name"), PyStr("")).str
             path == Or(Get1(task, "path"), PyStr("\\")).str
             state == Get1(task, "state")
             trigger == Or(Get1(task, "trigger_type"), PyStr(""))
             made ==
                 IF _is_exempt(name) THEN <<>>
                 ELSE IF IsOsTaskPath(LowerName(path \o name)) THEN <<>>
                 ELSE IF state # PyInt(3) THEN <<>>
                 ELSE <<_make_suggestion(StrId(counter), "low",
                            "Review scheduled task at startup: '" \o name \o "'",
                            "Third-party scheduled tasks that run at logon can delay startup and consume resources.",
                            PyDict([name |-> PyStr(name), path |-> PyStr(path),
                                    trigger_type |-> trigger, state |-> state]),
                            PyList(<<PyStr("Open Task Scheduler (taskschd.msc)"),
                                     PyStr("Locate the task '" \o name \o "' under '" \o path \o "'")>>))>>
         IN made \o StartupTasksFrom(tasks, i + 1, counter + Len(made))

\* analyze_startup_reduction(report)
analyze_startup_reduction(rpt) ==
    LET startup == Or(Get1(rpt, "startup"), EmptyDict)
        entries == Or(Get1(startup, "entries"), EmptyList)
        tasks == Or(Get1(startup, "scheduled_tasks"), EmptyList)
        first == StartupEntriesFrom(entries.list, 1, 1)
    IN first.suggestions \o StartupTasksFrom(tasks.list, 1, first.counter)

_THRESHOLD_HIGH == 90
_THRESHOLD_MEDIUM == 30
_THRESHOLD_LOW == 14

NoDate == 0 - 1

\* int(_DATE_RE.search(raw).group(1)) / 1000 for the raw strings of the model, NoDate
\* when the pattern /Date\((\d+)\)/ is not found
DateReSearch(raw) ==
    CASE raw = "/Date(1764190800000)/" -> 1764190800
      [] raw = "/Date(1770854400000)/" -> 1770854400
      [] raw = "/Date(1769904000000)/" -> 1769904000
      [] raw = "/Date(1700000000000)/" -> 1700000000
      [] raw = "/Date(1769990400000)/" -> 1769990400
      [] raw = "/Date(1769907600000)/" -> 1769907600
      [] raw = "/Date(1768608000000)/" -> 1768608000
      [] raw = "/Date(1768521600000)/" -> 1768521600
      [] raw = "/Date(1763424000000)/" -> 1763424000
      [] raw = "/Date(1763337600000)/" -> 1763337600
      [] raw = "/Date(1771200000000)/" -> 1771200000
      [] OTHER -> NoDate

\* _parse_last_patch(raw): epoch seconds, NoDate for None
_parse_last_patch(raw) ==
    IF ~Truthy(raw) THEN NoDate ELSE DateReSearch(raw.str)

\* last_dt.strftime("%Y-%m-%d")
DateStr(epoch) ==
    CASE epoch = 1764190800 -> "2025-11-26"
      [] epoch = 1770854400 -> "2026-02-12"
      [] epoch = 1769904000 -> "2026-02-01"
      [] epoch = 1700000000 -> "2023-11-14"
      [] epoch = 1769990400 -> "2026-02-02"
      [] epoch = 1769907600 -> "2026-02-01"
      [] epoch = 1768608000 -> "2026-01-17"
      [] epoch = 1768521600 -> "2026-01-16"
      [] epoch = 1763424000 -> "2025-11-18"
      [] epoch = 1763337600 -> "2025-11-17"
      [] epoch = 1771200000 -> "2026-02-16"

UpdateSteps ==
    PyList(<<PyStr("Open Settings > Windows Update"), PyStr("Click 'Check for updates'"),
             PyStr("Install all available updates"), PyStr("Reboot when prompted")>>)

\* the bands compared with > instead of >=
UpdatePriority_Exclusive(days_ago) ==
    IF days_ago > _THRESHOLD_HIGH THEN "high"
    ELSE IF days_ago > _THRESHOLD_MEDIUM THEN "medium"
    ELSE IF days_ago > _THRESHOLD_LOW THEN "low"
    ELSE "none"

UpdatePriority(days_ago) ==
    IF days_ago >= _THRESHOLD_HIGH THEN "high"
    ELSE IF days_ago >= _THRESHOLD_MEDIUM THEN "medium"
    ELSE IF days_ago >= _THRESHOLD_LOW THEN "low"
    ELSE "none"

\* the standing MAINT-OSU-002 reminder
StandingReminder ==
    PyDict([id |-> PyStr("MAINT-OSU-002"),
            priority |-> PyStr("info"),
            safe_to_automate |-> PyBool(FALSE),
            title |-> PyStr("Confirm Windows Update is set to automatic"),
            rationale |-> PyStr("Automatic updates reduce the chance of a long patch gap going unnoticed."),
            action |-> PyDict([type |-> PyStr("suggest_only"),
                               description |-> PyStr("Verify the Windows Update policy setting"),
                               manual_steps |-> PyList(<<PyStr("Open Settings > Windows Update > Advanced options")>>)])])

\* analyze_os_updates(report), with now_utc read as epoch seconds
analyze_os_updates(rpt, now_epoch) ==
    LET os_detail == Or(Get1(rpt, "os_detail"), EmptyDict)
        patches == Or(Get1(os_detail, "patches"), EmptyDict)
        last_dt == _parse_last_patch(Get1(patches, "last_installed"))
        patch_count == Get(patches, "count", PyInt(0))
        hotfixes == Or(Get1(patches, "hotfixes"), EmptyList)
        most_recent_kb == IF Truthy(hotfixes) THEN Get1(hotfixes.list[1], "id") ELSE PyNone
        days_ago == (now_epoch - last_dt) \div 86400
        staleness ==
            IF last_dt = NoDate
            THEN <<PyDict([id |-> PyStr("MAINT-OSU-001"),
                           priority |-> PyStr("medium"),
                           safe_to_automate |-> PyBool(FALSE),
                           title |-> PyStr("Verify Windows Update status"),
                           patch_info |-> PyDict([last_patch_date |-> PyNone,
                                                  days_since_last_patch |-> PyNone]),
                           action |-> PyDict([type |-> PyStr("suggest_only"),
                                              description |-> PyStr("Open Windows Update and check for pending updates"),
                                              manual_steps |-> UpdateSteps])])>>
            ELSE IF UpdatePriority(days_ago) # "none"
            THEN <<PyDict([id |-> PyStr("MAINT-OSU-001"),
                           priority |-> PyStr(UpdatePriority(days_ago)),
                           safe_to_automate |-> PyBool(FALSE),
                           title |-> PyStr("Apply pending Windows updates"),
                           patch_info |-> PyDict([last_patch_date |-> PyStr(DateStr(last_dt)),
                                                  days_since_last_patch |-> PyInt(days_ago),
                                                  patch_count_in_report |-> patch_count,
                                                  most_recent_kb |-> most_recent_kb]),
                           action |-> PyDict([type |-> PyStr("suggest_only"),
                                              description |-> PyStr("Open Windows Update and install all available updates"),
                                              manual_steps |-> UpdateSteps])])>>
            ELSE <<>>
    IN staleness \o <<StandingReminder>>

\* generate(report) -> maintenance plan dict; n is the clock reading count at the call
generate(rpt, n) ==
    LET temp == analyze_temp_cleanup(rpt)
        startup == analyze_startup_reduction(rpt)
        os_upd == analyze_os_updates(rpt, NowEpoch(n))
        by_category == PyDict([temp_cleanup |-> PyInt(Len(temp)),
                               startup_reduction |-> PyInt(Len(startup)),
                               os_updates |-> PyInt(Len(os_upd))])
        hostname == Or(Get1(Or(Get1(rpt, "device_identity"), EmptyDict), "hostname"),
                       Get1(Or(Get1(rpt, "os"), EmptyDict), "hostname"))
    IN PyDict([schema_version |-> PyStr("1.0"),
               plan_version |-> PyStr("1.0"),
               generated_at |-> PyStr(NowIso(n + 1)),
               source_report_id |-> Get1(rpt, "run_id"),
               hostname |-> hostname,
               agent_version |-> Get1(rpt, "agent_version"),
               safety_notice |-> PyStr("This plan contains suggestions only. No changes are applied automatically. Review every item carefully before taking any action."),
               summary |-> PyDict([total_suggestions |-> PyInt(Len(temp) + Len(startup) + Len(os_upd)),
                                   by_category |-> by_category,
                                   estimated_space_recoverable_gb |-> PyNone]),
               suggestions |-> PyDict([temp_cleanup |-> PyList(temp),
                                       startup_reduction |-> PyList(startup),
                                       os_updates |-> PyList(os_upd)])])

(***************************************************************************)
(* Orchestrator (cli.run)                                                  *)
(***************************************************************************)
Unset == [unset |-> TRUE]

\* _load_platform_collectors(): the (label, collector) list of the host platform
_load_platform_collectors(plat) ==
    IF plat = "win32"
    THEN << <<"device_identity", "windows.device_identity">>,
            <<"_win_hardware", "windows.hardware">>,
            <<"_win_storage", "windows.storage">>,
            <<"os_detail", "windows.os_info">>,
            <<"software", "windows.software">>,
            <<"security", "windows.security">>,
            <<"_antivirus", "windows.antivirus">>,
            <<"_startup", "windows.startup">>,
            <<"_win_network", "windows.network">>,
            <<"logs", "windows.logs">> >>
    ELSE IF plat = "darwin"
    THEN << <<"device_identity", "macos.device_identity">>,
            <<"_mac_hardware", "macos.hardware">>,
            <<"_mac_storage", "macos.storage">>,
            <<"os_detail", "macos.os_info">>,
            <<"software", "macos.software">>,
            <<"security", "macos.security">>,
            <<"_mac_network", "macos.network">>,
            <<"logs", "macos.logs">> >>
    ELSE <<>>

Platforms == {"win32", "darwin", "linux"}

\* before "Write outputs" is reached
NotDelivering ==
    /\ args = PyNone
    /\ exit_status = PyNone
    /\ outputs = {}
    /\ stderr = <<>>

\* no server in the picture
NoServer ==
    /\ devices = <<>>
    /\ reports = <<>>
    /\ response = PyNone

\* one entry of the invocation history
Invocation(label, name, outcome, result) ==
    [label |-> label, name |-> name, outcome |-> outcome, result |-> result]

InitRun ==
    /\ mode = "run"
    /\ platform \in Platforms
    /\ pc = "common_hw"
    /\ common_hw_result = Unset
    /\ common_stor_result = Unset
    /\ common_net_result = Unset
    /\ uptime_result = Unset
    /\ legacy_os = Unset
    /\ all_errors = EmptyList
    /\ platform_collectors = <<>>
    /\ platform_results = Unset
    /\ trace = <<>>
    /\ report = PyNone
    /\ maintenance_plan = PyNone
    /\ clock = 0
    /\ NotDelivering
    /\ NoServer

\* common_hw_result = HardwareCollector().collect()
RunCommonHardware ==
    /\ mode = "run" /\ pc = "common_hw"
    /\ \E o \in Outcomes("common.hardware") :
         LET r == collect("common.hardware", o)
         IN /\ trace' = Append(trace, Invocation("common_hw", "common.hardware", o, r))
            /\ IF Propagated(r)
               THEN pc' = "crashed" /\ UNCHANGED common_hw_result
               ELSE pc' = "common_storage" /\ common_hw_result' = r
    /\ UNCHANGED <<mode, platform, common_stor_result, common_net_result, uptime_result,
                   legacy_os, all_errors, platform_collectors, platform_results, report,
                   maintenance_plan, clock>>
    /\ UNCHANGED <<delivery_vars, server_vars>>

\* common_stor_result = StorageCollector().collect()
RunCommonStorage ==
    /\ mode = "run" /\ pc = "common_storage"
    /\ \E o \in Outcomes("common.storage") :
         LET r == collect("common.storage", o)
         IN /\ trace' = Append(trace, Invocation("common_storage", "common.storage", o, r))
            /\ IF Propagated(r)
               THEN pc' = "crashed" /\ UNCHANGED common_stor_result
               ELSE pc' = "common_net" /\ common_stor_result' = r
    /\ UNCHANGED <<mode, platform, common_hw_result, common_net_result, uptime_result,
                   legacy_os, all_errors, platform_collectors, platform_results, report,
                   maintenance_plan, clock>>
    /\ UNCHANGED <<delivery_vars, server_vars>>

\* common_net_result = NetworkCollector().collect()
RunCommonNetwork ==
    /\ mode = "run" /\ pc = "common_net"
    /\ \E o \in Outcomes("common.network") :
         LET r == collect("common.network", o)
         IN /\ trace' = Append(trace, Invocation("common_net", "common.network", o, r))
            /\ IF Propagated(r)
               THEN pc' = "crashed" /\ UNCHANGED common_net_result
               ELSE pc' = "uptime" /\ common_net_result' = r
    /\ UNCHANGED <<mode, platform, common_hw_result, common_stor_result, uptime_result,
                   legacy_os, all_errors, platform_collectors, platform_results, report,
                   maintenance_plan, clock>>
    /\ UNCHANGED <<delivery_vars, server_vars>>

\* uptime_result = UptimeCollector().collect()
RunUptime ==
    /\ mode = "run" /\ pc = "uptime"
    /\ \E o \in Outcomes("common.uptime") :
         LET r == collect("common.uptime", o)
         IN /\ trace' = Append(trace, Invocation("uptime", "common.uptime", o, r))
            /\ IF Propagated(r)
               THEN pc' = "crashed" /\ UNCHANGED uptime_result
               ELSE pc' = "extend_errors" /\ uptime_result' = r
    /\ UNCHANGED <<mode, platform, common_hw_result, common_stor_result, common_net_result,
                   legacy_os, all_errors, platform_collectors, platform_results, report,
                   maintenance_plan, clock>>
    /\ UNCHANGED <<delivery_vars, server_vars>>

\* for r in (common_hw_result, ...): all_errors.extend(r.errors)
extend_common_errors(errors, hw, stor, net, up) ==
    Extend(Extend(Extend(Extend(errors, hw.errors), stor.errors), net.errors), up.errors)

ExtendCommonErrors ==
    /\ mode = "run" /\ pc = "extend_errors"
    /\ all_errors' = extend_common_errors(all_errors, common_hw_result, common_stor_result,
                                          common_net_result, uptime_result)
    /\ pc' = "legacy_os"
    /\ UNCHANGED <<mode, platform, common_hw_result, common_stor_result, common_net_result,
                   uptime_result, legacy_os, platform_collectors, platform_results,
                   trace, report, maintenance_plan, clock>>
    /\ UNCHANGED <<delivery_vars, server_vars>>

\* the legacy OS step without its try/except
legacy_os_step_Unguarded(outcome, errors) ==
    IF DidRaise(outcome)
    THEN Propagate(outcome.raises)
    ELSE [legacy_os |-> outcome.returns, all_errors |-> errors]

\* legacy_os = {} ; try: legacy_os = _collect_legacy_os() except Exception: all_errors.append(...)
legacy_os_step(outcome, errors) ==
    IF DidRaise(outcome)
    THEN [legacy_os |-> EmptyDict,
          all_errors |-> PyAppend(errors, PyStr("legacy_os: " \o outcome.raises))]
    ELSE [legacy_os |-> outcome.returns, all_errors |-> errors]

LegacyOutcomes == {Returns(LegacyOsData)} \cup {Raises(c) : c \in CausesOf("legacy_os")}

LegacyOsStep ==
    /\ mode = "run" /\ pc = "legacy_os"
    /\ \E o \in LegacyOutcomes :
         LET r == legacy_os_step(o, all_errors)
         IN /\ trace' = Append(trace, Invocation("legacy_os", "legacy_os", o, r))
            /\ IF Propagated(r)
               THEN pc' = "crashed" /\ UNCHANGED <<legacy_os, all_errors>>
               ELSE /\ pc' = "load_platform"
                    /\ legacy_os' = r.legacy_os
                    /\ all_errors' = r.all_errors
    /\ UNCHANGED <<mode, platform, common_hw_result, common_stor_result, common_net_result,
                   uptime_result, platform_collectors, platform_results, report,
                   maintenance_plan, clock>>
    /\ UNCHANGED <<delivery_vars, server_vars>>

\* platform_collectors = _load_platform_collectors() ; platform_results = {}
LoadPlatformCollectors ==
    /\ mode = "run" /\ pc = "load_platform"
    /\ platform_collectors' = _load_platform_collectors(platform)
    /\ platform_results' = EmptyDict
    /\ pc' = IF platform_collectors' = <<>> THEN "assemble" ELSE "platform_loop"
    /\ UNCHANGED <<mode, platform, common_hw_result, common_stor_result, common_net_result,
                   uptime_result, legacy_os, all_errors, trace, report,
                   maintenance_plan, clock>>
    /\ UNCHANGED <<delivery_vars, server_vars>>

\* the platform loop body that stops the loop at the first collector with errors
platform_loop_body_StopOnError(rest, result) ==
    IF Truthy(result.errors) THEN <<>> ELSE rest

\* the collectors still to run after one iteration of "for label, collector in ..."
platform_loop_body(rest, result) == rest

\* the loop body that records a failed collector's data under the previous results
record_result_KeepOnError(results, label, result) ==
    IF Truthy(result.errors) THEN results ELSE SetItem(results, label, result.data)

\* platform_results[label] = result.data
record_result(results, label, result) == SetItem(results, label, result.data)

\* the loop body that drops the errors of every collector but the first
collect_errors_FirstOnly(errors, result) ==
    IF Truthy(result.errors) /\ ~Truthy(errors) THEN Extend(errors, result.errors) ELSE errors

\* if result.errors: all_errors.extend(result.errors)
collect_errors(errors, result) ==
    IF Truthy(result.errors) THEN Extend(errors, result.errors) ELSE errors

\* one iteration of the platform collector loop
PlatformStep ==
    /\ mode = "run" /\ pc = "platform_loop"
    /\ platform_collectors # <<>>
    /\ LET label == Head(platform_collectors)[1]
           name == Head(platform_collectors)[2]
       IN \E o \in Outcomes(name) :
            LET r == collect(name, o)
            IN /\ trace' = Append(trace, Invocation(label, name, o, r))
               /\ IF Propagated(r)
                  THEN /\ pc' = "crashed"
                       /\ UNCHANGED <<all_errors, platform_results, platform_collectors>>
                  ELSE /\ all_errors' = collect_errors(all_errors, r)
                       /\ platform_results' = record_result(platform_results, label, r)
                       /\ platform_collectors' = platform_loop_body(Tail(platform_collectors), r)
                       /\ pc' = IF platform_collectors' = <<>> THEN "assemble"
                                ELSE "platform_loop"
    /\ UNCHANGED <<mode, platform, common_hw_result, common_stor_result, common_net_result,
                   uptime_result, legacy_os, report, maintenance_plan, clock>>
    /\ UNCHANGED <<delivery_vars, server_vars>>

\* report = _assemble_report(common_hw=common_hw_result.data, ...)
AssembleStep ==
    /\ mode = "run" /\ pc = "assemble"
    /\ LET r == _assemble_report(common_hw_result.data, common_stor_result.data,
                                 common_net_result.data, uptime_result.data,
                                 platform_results, legacy_os, all_errors,
                                 NowIso(clock), Uuid4(clock))
       IN /\ report' = r.report
          /\ platform_results' = r.platform_results
    /\ clock' = clock + 1
    /\ pc' = "assembled"
    /\ UNCHANGED <<mode, platform, common_hw_result, common_stor_result, common_net_result,
                   uptime_result, legacy_os, all_errors, platform_collectors, trace,
                   maintenance_plan>>
    /\ UNCHANGED <<delivery_vars, server_vars>>

\* if args.maintenance == "plan": maintenance_plan = generate_maintenance(report)
MaintenanceStep ==
    /\ mode = "run" /\ pc = "assembled"
    /\ maintenance_plan' = generate(report, clock)
    /\ clock' = clock + 2
    /\ pc' = "done"
    /\ UNCHANGED <<mode, platform, common_hw_result, common_stor_result, common_net_result,
                   uptime_result, legacy_os, all_errors, platform_collectors,
                   platform_results, trace, report>>
    /\ UNCHANGED <<delivery_vars, server_vars>>

NextRun ==
    \/ RunCommonHardware
    \/ RunCommonStorage
    \/ RunCommonNetwork
    \/ RunUptime
    \/ ExtendCommonErrors
    \/ LegacyOsStep
    \/ LoadPlatformCollectors
    \/ PlatformStep
    \/ AssembleStep
    \/ MaintenanceStep

SpecRun == InitRun /\ [][NextRun]_vars

\* the statements of run() up to the call of _assemble_report
CollectionSteps ==
    \/ RunCommonHardware
    \/ RunCommonStorage
    \/ RunCommonNetwork
    \/ RunUptime
    \/ ExtendCommonErrors
    \/ LegacyOsStep
    \/ LoadPlatformCollectors
    \/ PlatformStep

\* run() is sequential code: while a statement of the collection phase is next, it is executed
FairSpecRun == SpecRun /\ WF_vars(CollectionSteps)

(***************************************************************************)
(* _assemble_report and generate called as functions (tests, library use)  *)
(***************************************************************************)
MaxCalls == 2

Absent == [absent |-> TRUE]

\* results with one label set to a value, or removed
With(results, label, v) ==
    IF v = Absent
    THEN PyDict([k \in DOMAIN results.dict \ {label} |-> results.dict[k]])
    ELSE SetItem(results, label, v)

\* the platform_results of a Windows run in which every collector succeeded
WinResults ==
    PyDict([device_identity |-> DeviceIdentityData("windows"),
            _win_hardware |-> WinHardwareData,
            _win_storage |-> WinStorageData,
            os_detail |-> OsDetailData("windows"),
            software |-> WinSoftwareData,
            security |-> WinSecurityData,
            _antivirus |-> AntivirusData,
            _startup |-> StartupData,
            _win_network |-> PlatNetworkData("corp-wifi"),
            logs |-> LogsData])

Args(hw, stor, net, up, results, legacy, errors) ==
    [common_hw |-> hw, common_storage |-> stor, common_net |-> net, uptime |-> up,
     platform_results |-> results, legacy_os |-> legacy, all_errors |-> errors]

\* one section at a time: its baseline and its two platform variants, each absent, {} or data
HwCases ==
    { Args(hw, CommonStorageData, CommonNetworkData, UptimeData,
           With(With(WinResults, "_win_hardware", w), "_mac_hardware", m),
           LegacyOsData, EmptyList) :
        hw \in {EmptyDict, CommonHardwareData,
                PyDict([cpu |-> PyNone, ram |-> PyDict([total_gb |-> PyInt(8)])])},
        w \in {Absent, EmptyDict, WinHardwareData},
        m \in {Absent, EmptyDict, MacHardwareData} }

StorageCases ==
    { Args(CommonHardwareData, stor, CommonNetworkData, UptimeData,
           With(With(WinResults, "_win_storage", w), "_mac_storage", m),
           LegacyOsData, EmptyList) :
        stor \in {EmptyDict, CommonStorageData},
        w \in {Absent, EmptyDict, WinStorageData},
        m \in {Absent, EmptyDict, MacStorageData} }

NetCases ==
    { Args(CommonHardwareData, CommonStorageData, net, UptimeData,
           With(With(WinResults, "_win_network", w), "_mac_network", m),
           LegacyOsData, EmptyList) :
        net \in {EmptyDict, CommonNetworkData},
        w \in {Absent, EmptyDict, PlatNetworkData("corp-wifi")},
        m \in {Absent, EmptyDict, PlatNetworkData("home-wifi")} }

\* the startup collector against the software collector
StartupCases ==
    { Args(CommonHardwareData, CommonStorageData, CommonNetworkData, UptimeData,
           With(With(WinResults, "_startup", st), "software", sw),
           LegacyOsData, EmptyList) :
        st \in {Absent, EmptyDict, StartupData, PyDict([count |-> PyInt(0)])},
        sw \in {Absent, EmptyDict, WinSoftwareData, MacSoftwareData} }

\* the antivirus collector against the security collector
AvCases ==
    { Args(CommonHardwareData, CommonStorageData, CommonNetworkData, UptimeData,
           With(With(WinResults, "_antivirus", av), "security", sec),
           LegacyOsData, EmptyList) :
        av \in {Absent, EmptyDict, PyDict([products |-> PyNone, defender |-> EmptyDict])}
               \cup AntivirusVariants,
        sec \in {Absent, EmptyDict, WinSecurityData, MacSecurityData} }

\* the patch date the os_info collector reports
OsCases ==
    { Args(CommonHardwareData, CommonStorageData, CommonNetworkData, UptimeData,
           With(WinResults, "os_detail", od), LegacyOsData, EmptyList) :
        od \in {Absent, EmptyDict}
               \cup { PyDict([patches |-> PyDict([count |-> PyInt(1), last_installed |-> raw])]) :
                        raw \in {PyNone, PyStr("unknown"), PyStr("/Date(1770854400000)/"),
                                 PyStr("/Date(1769904000000)/"), PyStr("/Date(1700000000000)/")} } }

\* the inputs that are passed through: uptime, legacy OS data, the error list
PassThroughCases ==
    { Args(CommonHardwareData, CommonStorageData, CommonNetworkData, up,
           results, legacy, errors) :
        up \in {EmptyDict, UptimeData,
                PyDict([uptime |-> PyDict([days |-> PyInt(61)])])},
        results \in {EmptyDict, WinResults},
        legacy \in {EmptyDict, LegacyOsData},
        errors \in {EmptyList, PyList(<<PyStr("windows.logs: timed out")>>)} }

CallArgs ==
    HwCases \cup StorageCases \cup NetCases \cup StartupCases \cup AvCases
    \cup OsCases \cup PassThroughCases

InitCall ==
    /\ mode = "call"
    /\ platform \in {"linux"}
    /\ pc = "call"
    /\ \E a \in CallArgs :
         /\ common_hw_result = CollectorResult(a.common_hw, EmptyList)
         /\ common_stor_result = CollectorResult(a.common_storage, EmptyList)
         /\ common_net_result = CollectorResult(a.common_net, EmptyList)
         /\ uptime_result = CollectorResult(a.uptime, EmptyList)
         /\ legacy_os = a.legacy_os
         /\ all_errors = a.all_errors
         /\ platform_results = a.platform_results
    /\ platform_collectors = <<>>
    /\ trace = <<>>
    /\ report = PyNone
    /\ maintenance_plan = PyNone
    /\ clock = 0
    /\ NotDelivering
    /\ NoServer

\* report = _assemble_report(...): the caller passes its platform_results dict, which the
\* call updates in place, or a copy of it, which leaves the caller's dict as it was
CallAssemble ==
    /\ mode = "call"
    /\ clock < MaxCalls
    /\ LET r == _assemble_report(common_hw_result.data, common_stor_result.data,
                                 common_net_result.data, uptime_result.data,
                                 platform_results, legacy_os, all_errors,
                                 NowIso(clock), Uuid4(clock))
       IN /\ report' = r.report
          /\ \E passes_copy \in BOOLEAN :
               platform_results' = IF passes_copy THEN platform_results
                                   ELSE r.platform_results
    /\ clock' = clock + 1
    /\ UNCHANGED <<mode, platform, pc, common_hw_result, common_stor_result,
                   common_net_result, uptime_result, legacy_os, all_errors,
                   platform_collectors, trace, maintenance_plan>>
    /\ UNCHANGED <<delivery_vars, server_vars>>

\* maintenance_plan = generate(report)
CallGenerate ==
    /\ mode = "call"
    /\ report # PyNone
    /\ maintenance_plan = PyNone
    /\ maintenance_plan' = generate(report, clock)
    /\ clock' = clock + 2
    /\ UNCHANGED <<mode, platform, pc, common_hw_result, common_stor_result,
                   common_net_result, uptime_result, legacy_os, all_errors,
                   platform_collectors, platform_results, trace, report>>
    /\ UNCHANGED <<delivery_vars, server_vars>>

NextCall ==
    \/ CallAssemble
    \/ CallGenerate

SpecCall == InitCall /\ [][NextCall]_vars

Init == InitRun \/ InitCall

Next == NextRun \/ NextCall

Spec == Init /\ [][Next]_vars

(***************************************************************************)
(* compute_findings called on a report dict (tests/test_findings.py)       *)
(***************************************************************************)
\* tests/test_findings.py _clean_report(): a report that triggers no finding
CleanSecurity ==
    PyDict([antivirus |-> PyList(<<PyDict([name |-> PyStr("Windows Defender"),
                                           enabled |-> PyBool(TRUE),
                                           up_to_date |-> PyBool(TRUE)])>>),
            firewall |-> PyDict([domain_enabled |-> PyBool(TRUE),
                                 private_enabled |-> PyBool(TRUE),
                                 public_enabled |-> PyBool(TRUE)]),
            uac_enabled |-> PyBool(TRUE),
            encryption |-> PyDict([bitlocker_volumes |-> EmptyList])])

Volume(mp, pct) == With(PyDict([mountpoint |-> PyStr(mp), status |-> PyStr("ok")]), "percent_used", pct)

UptimeOf(days) == PyDict([uptime |-> With(PyDict([hours |-> PyInt(0)]), "days", days)])

CleanReport ==
    PyDict([security |-> CleanSecurity,
            logs |-> PyDict([failed_logins |-> EmptyList]),
            reboot |-> UptimeOf(PyInt(5)),
            storage |-> PyList(<<Volume("C:\\", PyInt(50))>>)])

\* the sequences of at most two elements of a set
UpToTwo(S) == {<<>>} \cup {<<a>> : a \in S} \cup {<<a, b>> : a \in S, b \in S}

AvEntries ==
    {PyDict([name |-> PyStr("Old AV"), enabled |-> PyBool(FALSE)]),
     PyDict([name |-> PyStr("Windows Defender"), enabled |-> PyBool(TRUE)]),
     PyDict([name |-> PyStr("Other AV"), enabled |-> PyNone]),
     PyDict([name |-> PyStr("Bare AV")])}

\* the antivirus list
AvInputs ==
    {With(CleanReport, "security", With(CleanSecurity, "antivirus", av)) :
        av \in {Absent} \cup {PyList(l) : l \in UpToTwo(AvEntries)}}

\* the security section as a whole: key missing, or {} as after a failed collector
NoSecurityInputs == {With(CleanReport, "security", sec) : sec \in {Absent, EmptyDict}}

\* UAC and the public firewall profile: missing, null, false, true
GateInputs ==
    {With(CleanReport, "security",
          With(With(CleanSecurity, "uac_enabled", uac), "firewall", fw)) :
        uac \in {Absent, PyNone, PyBool(FALSE), PyBool(TRUE), PyInt(0)},
        fw \in {Absent, EmptyDict}
               \cup {PyDict([public_enabled |-> pe]) :
                       pe \in {PyNone, PyBool(FALSE), PyBool(TRUE), PyInt(0)}}}

BitlockerEntries ==
    {PyDict([mount_point |-> PyStr("C:\\"), protection_status |-> PyInt(1)]),
     PyDict([mount_point |-> PyStr("D:\\"), protection_status |-> PyInt(0)]),
     PyDict([mount_point |-> PyStr("E:\\"), protection_status |-> PyNone]),
     PyDict([mount_point |-> PyStr("F:\\")])}

\* the BitLocker volume list
EncryptionInputs ==
    {With(CleanReport, "security", With(CleanSecurity, "encryption", enc)) :
        enc \in {Absent, EmptyDict}
                \cup {PyDict([bitlocker_volumes |-> PyList(l)]) : l \in UpToTwo(BitlockerEntries)}}

FailedLogins(n) == PyList([i \in 1..n |-> EmptyDict])

\* the number of failed logins
LoginInputs ==
    {With(CleanReport, "logs", logs) :
        logs \in {Absent, EmptyDict}
                 \cup {PyDict([failed_logins |-> FailedLogins(n)]) : n \in {0, 4, 5, 9, 10, 15}}}

\* the uptime in days
UptimeInputs ==
    {With(CleanReport, "reboot", rb) :
        rb \in {Absent, EmptyDict, PyDict([uptime |-> PyNone]), PyDict([uptime |-> EmptyDict])}
               \cup {UptimeOf(d) : d \in {Absent, PyNone} \cup {PyInt(n) : n \in {0, 5, 30, 31, 60, 61}}}}

VolumeKinds ==
    {Volume("C:\\", pct) : pct \in {Absent, PyNone} \cup {PyInt(n) : n \in {50, 90, 91, 95, 96}}}
    \cup {With(Volume("C:\\", PyInt(97)), "mountpoint", Absent)}

\* the volumes of the storage section
StorageInputs ==
    {With(CleanReport, "storage", st) :
        st \in {Absent} \cup {PyList(l) : l \in UpToTwo(VolumeKinds)}}

App(name) == PyDict([name |-> PyStr(name), version |-> PyStr("1.0")])

\* the installed software
SoftwareInputs ==
    {With(CleanReport, "software", sw) :
        sw \in {Absent, PyNone, EmptyDict}
               \cup {PyDict([installed |-> PyList(l)]) :
                       l \in UpToTwo({App("uTorrent"), App("Ask Toolbar"), App("Office KeyGen"),
                                      App("Safari")})}}

\* several rules at once, as in test_score_capped_at_100
CombinedInputs ==
    {PyDict([security |-> With(With(With(CleanSecurity, "antivirus", av), "uac_enabled", uac),
                               "encryption", PyDict([bitlocker_volumes |-> bl])),
             logs |-> PyDict([failed_logins |-> FailedLogins(n)]),
             reboot |-> UptimeOf(PyInt(d)),
             storage |-> PyList(st),
             software |-> PyDict([installed |-> PyList(sw)])]) :
        av \in {EmptyList, CleanSecurity.dict["antivirus"]},
        uac \in {PyBool(FALSE), PyBool(TRUE)},
        bl \in {EmptyList, PyList(<<PyDict([protection_status |-> PyInt(0)])>>)},
        n \in {0, 5, 15},
        d \in {5, 65},
        st \in {<<Volume("C:\\", PyInt(50))>>, <<Volume("C:\\", PyInt(97)), Volume("D:\\", PyInt(91))>>},
        sw \in {<<>>, <<App("Ask Toolbar")>>, <<App("Ask Toolbar"), App("Office KeyGen")>>}}

\* the report literal of an assembly, as cli.py 312 passes it to compute_findings
AssembledInputs ==
    {report_literal(a.common_hw, a.common_storage, a.common_net, a.uptime,
                    merge_antivirus(merge_startup(a.platform_results)),
                    a.legacy_os, a.all_errors, NowIso(0), Uuid4(0)) :
        a \in AvCases \cup PassThroughCases}

FindingsInputs ==
    AvInputs \cup NoSecurityInputs \cup GateInputs \cup EncryptionInputs \cup LoginInputs
    \cup UptimeInputs \cup StorageInputs \cup SoftwareInputs \cup CombinedInputs
    \cup AssembledInputs

InitFindings ==
    /\ mode = "findings"
    /\ platform \in {"linux"}
    /\ pc = "compute_findings"
    /\ report \in FindingsInputs
    /\ common_hw_result = Unset
    /\ common_stor_result = Unset
    /\ common_net_result = Unset
    /\ uptime_result = Unset
    /\ legacy_os = Unset
    /\ all_errors = EmptyList
    /\ platform_collectors = <<>>
    /\ platform_results = Unset
    /\ trace = <<>>
    /\ maintenance_plan = PyNone
    /\ clock = 0
    /\ NotDelivering
    /\ NoServer

\* findings, risk_score = compute_findings(report) ; report["findings"] = findings ;
\* report["risk_score"] = risk_score
CallComputeFindings ==
    /\ mode = "findings" /\ pc = "compute_findings"
    /\ LET cf == compute_findings(report)
       IN report' = SetItem(SetItem(report, "findings", cf.findings),
                            "risk_score", cf.risk_score)
    /\ pc' = "findings_done"
    /\ UNCHANGED <<mode, platform, common_hw_result, common_stor_result, common_net_result,
                   uptime_result, legacy_os, all_errors, platform_collectors,
                   platform_results, trace, maintenance_plan, clock>>
    /\ UNCHANGED <<delivery_vars, server_vars>>

NextFindings == CallComputeFindings

SpecFindings == InitFindings /\ [][NextFindings]_vars

(***************************************************************************)
(* Direct calls of match_installed(installed, config_path)                 *)
(***************************************************************************)
\* installed-software records: names in several spellings, a null name, no name key
InstalledKinds ==
    {App("uTorrent"), App("Ask Toolbar"), App("ASK TOOLBAR"), App("Office KeyGen"),
     App("Safari"), PyDict([name |-> PyNone]), PyDict([version |-> PyStr("1.0")])}

MatchInputs ==
    {PyDict([installed |-> PyList(l), config_path |-> PyStr(c)]) :
        l \in UpToTwo(InstalledKinds), c \in ConfigPaths}

\* in this mode report holds the arguments of the call, then its return value too
InitMatch ==
    /\ mode = "match"
    /\ platform \in {"linux"}
    /\ pc = "match_installed"
    /\ report \in MatchInputs
    /\ common_hw_result = Unset
    /\ common_stor_result = Unset
    /\ common_net_result = Unset
    /\ uptime_result = Unset
    /\ legacy_os = Unset
    /\ all_errors = EmptyList
    /\ platform_collectors = <<>>
    /\ platform_results = Unset
    /\ trace = <<>>
    /\ maintenance_plan = PyNone
    /\ clock = 0
    /\ NotDelivering
    /\ NoServer

\* matches = match_installed(installed, config_path)
CallMatchInstalled ==
    /\ mode = "match" /\ pc = "match_installed"
    /\ report' = SetItem(report, "matches",
                         PyList(match_installed_from(report.dict["installed"],
                                                     report.dict["config_path"].str)))
    /\ pc' = "matched"
    /\ UNCHANGED <<mode, platform, common_hw_result, common_stor_result, common_net_result,
                   uptime_result, legacy_os, all_errors, platform_collectors,
                   platform_results, trace, maintenance_plan, clock>>
    /\ UNCHANGED <<delivery_vars, server_vars>>

\* the matcher called directly and through compute_findings
InitSoftware == InitMatch \/ InitFindings

NextSoftware == CallMatchInstalled \/ CallComputeFindings

SpecSoftware == InitSoftware /\ [][NextSoftware]_vars

(***************************************************************************)
(* Direct calls of generate(report)                                        *)
(***************************************************************************)
\* startup entries as collectors/windows/startup.py builds them: an optional name, an
\* exempt name, a name that is both, and a name in neither table
EntryKinds ==
    {With(PyDict([name |-> PyStr(n), type |-> PyStr(t), location |-> PyStr("HKCU\\Run")]),
          "enabled", e) :
        n \in {"OneDrive", "KeePass 2 PreLoad", "OneDrive KeePass", "OldRun"},
        t \in {"registry_run", "registry_runonce"},
        e \in {Absent, PyBool(TRUE), PyBool(FALSE)}}

\* scheduled tasks: third-party ready, third-party disabled, exempt, OS-owned
TaskKinds ==
    {PyDict([name |-> PyStr("Updater"), path |-> PyStr("\\Vendor\\"),
             state |-> PyInt(3), trigger_type |-> PyStr("LogonTrigger")]),
     PyDict([name |-> PyStr("Updater"), path |-> PyStr("\\Vendor\\"),
             state |-> PyInt(1), trigger_type |-> PyStr("LogonTrigger")]),
     PyDict([name |-> PyStr("KeePass 2 PreLoad"), path |-> PyStr("\\Vendor\\"),
             state |-> PyInt(3), trigger_type |-> PyStr("BootTrigger")]),
     PyDict([name |-> PyStr("Defrag"), path |-> PyStr("\\Microsoft\\Windows\\"),
             state |-> PyInt(3)])}

\* the part of a report generate() reads besides the analysed sections
PlanReport ==
    PyDict([run_id |-> PyStr(Uuid4(0)), agent_version |-> PyStr(__version__),
            device_identity |-> PyDict([hostname |-> PyStr("WS-01")])])

StartupSections ==
    {Absent, PyNone, EmptyDict}
    \cup {PyDict([entries |-> PyList(l), scheduled_tasks |-> PyList(ts)]) :
            l \in UpToTwo(EntryKinds),
            ts \in {<<>>} \cup {<<t>> : t \in TaskKinds}}

\* os_detail.patches.last_installed: unknown, unparsable, and dates on both sides of
\* each threshold for a clock at 2026-02-15T00:00:01Z
LastInstalledKinds ==
    {Absent, PyNone, PyStr(""), PyStr("unknown"),
     PyStr("/Date(1771200000000)/"), PyStr("/Date(1770854400000)/"),
     PyStr("/Date(1769990400000)/"), PyStr("/Date(1769907600000)/"),
     PyStr("/Date(1769904000000)/"), PyStr("/Date(1768608000000)/"),
     PyStr("/Date(1768521600000)/"), PyStr("/Date(1764190800000)/"),
     PyStr("/Date(1763424000000)/"), PyStr("/Date(1763337600000)/"),
     PyStr("/Date(1700000000000)/")}

OsDetailSections ==
    {Absent, PyNone, EmptyDict, PyDict([patches |-> PyNone])}
    \cup {PyDict([patches |-> With(PyDict([count |-> PyInt(1), hotfixes |-> hf]),
                                   "last_installed", raw)]) :
            raw \in LastInstalledKinds,
            hf \in {EmptyList, PyList(<<PyDict([id |-> PyStr("KB5000001")])>>)}}

GenerateInputs ==
    {With(PlanReport, "startup", st) : st \in StartupSections}
    \cup {With(With(PlanReport, "startup", PyDict([entries |-> StartupEntries])), "os_detail", od) :
            od \in OsDetailSections}

InitGenerate ==
    /\ mode = "generate"
    /\ platform \in {"win32"}
    /\ pc = "generate"
    /\ report \in GenerateInputs
    /\ common_hw_result = Unset
    /\ common_stor_result = Unset
    /\ common_net_result = Unset
    /\ uptime_result = Unset
    /\ legacy_os = Unset
    /\ all_errors = EmptyList
    /\ platform_collectors = <<>>
    /\ platform_results = Unset
    /\ trace = <<>>
    /\ maintenance_plan = PyNone
    /\ clock = 0
    /\ NotDelivering
    /\ NoServer

\* maintenance_plan = generate_maintenance(report)
CallGenerateMaintenance ==
    /\ mode = "generate" /\ pc = "generate"
    /\ maintenance_plan' = generate(report, clock)
    /\ clock' = clock + 2
    /\ pc' = "generated"
    /\ UNCHANGED <<mode, platform, common_hw_result, common_stor_result, common_net_result,
                   uptime_result, legacy_os, all_errors, platform_collectors,
                   platform_results, trace, report>>
    /\ UNCHANGED <<delivery_vars, server_vars>>

NextGenerate == CallGenerateMaintenance

SpecGenerate == InitGenerate /\ [][NextGenerate]_vars

(***************************************************************************)
(* Outputs and delivery of a run (cli.run from "Write outputs" on)         *)
(***************************************************************************)
\* what a writing or delivering call leaves behind
Effect(out, err, status) == [outputs |-> out, stderr |-> err, exit_status |-> status]

\* write_json(report, output_path): an OSError is reported and ends the process with 1
write_json(output_path, ok, out, err) ==
    IF ok THEN Effect(out \cup {output_path}, err, PyNone)
    ELSE Effect(out, Append(err, "[error] Could not write JSON to '" \o output_path \o "'"),
                PyInt(1))

\* write_html(report, output_path): as write_json
write_html(output_path, ok, out, err) ==
    IF ok THEN Effect(out \cup {output_path}, err, PyNone)
    ELSE Effect(out, Append(err, "[error] Could not write HTML to '" \o output_path \o "'"),
                PyInt(1))

\* _post_report(report, url, api_key): every exception is caught and printed
_post_report(ok, out, err) ==
    IF ok THEN Effect(out \cup {"POST"}, err, PyNone)
    ELSE Effect(out, Append(err, "[post] FAILED"), PyNone)

\* _share_report(json_path, share_path): every exception is caught and printed
_share_report(ok, out, err) ==
    IF ok THEN Effect(out \cup {"share/report.json"}, err, PyNone)
    ELSE Effect(out, Append(err, "[share] FAILED"), PyNone)

\* parse_args: --format, --mode (with its URL or path given), --maintenance
ArgSets ==
    [format : {"json", "html", "both"}, mode : {"local", "post", "share"},
     maintenance : {PyNone, PyStr("plan")}]

\* run() after "Assembling report... done"
InitDeliver ==
    /\ mode = "deliver"
    /\ platform \in {"win32"}
    /\ pc = "write_json"
    /\ common_hw_result = CollectorResult(CommonHardwareData, EmptyList)
    /\ common_stor_result = CollectorResult(CommonStorageData, EmptyList)
    /\ common_net_result = CollectorResult(CommonNetworkData, EmptyList)
    /\ uptime_result = CollectorResult(UptimeData, EmptyList)
    /\ legacy_os = LegacyOsData
    /\ all_errors = EmptyList
    /\ platform_collectors = <<>>
    /\ LET r == _assemble_report(CommonHardwareData, CommonStorageData, CommonNetworkData,
                                 UptimeData, WinResults, LegacyOsData, EmptyList,
                                 NowIso(0), Uuid4(0))
       IN /\ report = r.report
          /\ platform_results = r.platform_results
    /\ trace = <<>>
    /\ maintenance_plan = PyNone
    /\ clock = 1
    /\ args \in ArgSets
    /\ exit_status = PyNone
    /\ outputs = {}
    /\ stderr = <<>>
    /\ NoServer

\* the effect of a call on the process: sys.exit ends it, otherwise run() goes on
Proceed(effect, next_pc) ==
    /\ outputs' = effect.outputs
    /\ stderr' = effect.stderr
    /\ exit_status' = effect.exit_status
    /\ pc' = IF effect.exit_status # PyNone THEN "exited" ELSE next_pc

\* if args.format in ("json", "both"): write_json(report, json_path)
WriteJsonStep ==
    /\ mode = "deliver" /\ pc = "write_json"
    /\ IF args.format \in {"json", "both"}
       THEN \E ok \in BOOLEAN : Proceed(write_json("report.json", ok, outputs, stderr), "write_html")
       ELSE pc' = "write_html" /\ UNCHANGED <<outputs, stderr, exit_status>>
    /\ UNCHANGED <<mode, platform, common_hw_result, common_stor_result, common_net_result,
                   uptime_result, legacy_os, all_errors, platform_collectors,
                   platform_results, trace, report, maintenance_plan, clock, args>>
    /\ UNCHANGED server_vars

\* if args.format in ("html", "both"): write_html(report, html_path)
WriteHtmlStep ==
    /\ mode = "deliver" /\ pc = "write_html"
    /\ IF args.format \in {"html", "both"}
       THEN \E ok \in BOOLEAN : Proceed(write_html("report.html", ok, outputs, stderr), "delivery")
       ELSE pc' = "delivery" /\ UNCHANGED <<outputs, stderr, exit_status>>
    /\ UNCHANGED <<mode, platform, common_hw_result, common_stor_result, common_net_result,
                   uptime_result, legacy_os, all_errors, platform_collectors,
                   platform_results, trace, report, maintenance_plan, clock, args>>
    /\ UNCHANGED server_vars

\* if args.mode == "post": _post_report(...) elif args.mode == "share": _share_report(...)
DeliveryStep ==
    /\ mode = "deliver" /\ pc = "delivery"
    /\ IF args.mode = "post"
       THEN \E ok \in BOOLEAN : Proceed(_post_report(ok, outputs, stderr), "maintenance")
       ELSE IF args.mode = "share"
       THEN \E ok \in BOOLEAN : Proceed(_share_report(ok, outputs, stderr), "maintenance")
       ELSE pc' = "maintenance" /\ UNCHANGED <<outputs, stderr, exit_status>>
    /\ UNCHANGED <<mode, platform, common_hw_result, common_stor_result, common_net_result,
                   uptime_result, legacy_os, all_errors, platform_collectors,
                   platform_results, trace, report, maintenance_plan, clock, args>>
    /\ UNCHANGED server_vars

\* if args.maintenance == "plan": generate the plan and write_json it
MaintenancePlanStep ==
    /\ mode = "deliver" /\ pc = "maintenance"
    /\ IF args.maintenance = PyStr("plan")
       THEN /\ maintenance_plan' = generate(report, clock)
            /\ clock' = clock + 2
            /\ \E ok \in BOOLEAN :
                 Proceed(write_json("maintenance_plan.json", ok, outputs, stderr), "summary")
       ELSE /\ pc' = "summary"
            /\ UNCHANGED <<maintenance_plan, clock, outputs, stderr, exit_status>>
    /\ UNCHANGED <<mode, platform, common_hw_result, common_stor_result, common_net_result,
                   uptime_result, legacy_os, all_errors, platform_collectors,
                   platform_results, trace, report, args>>
    /\ UNCHANGED server_vars

\* the summary line; run() returns and the process ends with status 0
SummaryStep ==
    /\ mode = "deliver" /\ pc = "summary"
    /\ pc' = "done"
    /\ exit_status' = PyInt(0)
    /\ UNCHANGED <<mode, platform, common_hw_result, common_stor_result, common_net_result,
                   uptime_result, legacy_os, all_errors, platform_collectors,
                   platform_results, trace, report, maintenance_plan, clock, args,
                   outputs, stderr>>
    /\ UNCHANGED server_vars

NextDeliver ==
    \/ WriteJsonStep
    \/ WriteHtmlStep
    \/ DeliveryStep
    \/ MaintenancePlanStep
    \/ SummaryStep

SpecDeliver == InitDeliver /\ [][NextDeliver]_vars

(***************************************************************************)
(* Inventory server (server/routers/ingest.py, devices.py, auth.py, db.py) *)
(***************************************************************************)
MaxRequests == 3

\* IT_SNAPSHOT_API_KEY of the server
_API_KEY == "secret"

\* an accepted set that lets the next version through
_ACCEPTED_SCHEMA_VERSIONS_Lenient == {"1.0", "2.0", "3.0"}

_ACCEPTED_SCHEMA_VERSIONS == {"1.0", "2.0"}

\* str.strip() on the host and domain names of the model
Strip(s) ==
    CASE s = " ws-01 " -> "ws-01"
      [] s = "corp " -> "corp"
      [] OTHER -> s

\* _extract_device_identity(payload) -> (hostname, domain)
_extract_device_identity(payload) ==
    LET dev == Or(Get1(payload, "device_identity"), EmptyDict)
        hostname == Or(Or(Get1(dev, "hostname"),
                          Get1(Or(Get1(payload, "os"), EmptyDict), "hostname")),
                       PyStr("unknown"))
        domain == Or(Or(Get1(dev, "domain"), Get1(dev, "workgroup")), PyStr(""))
    IN <<Strip(hostname.str), Strip(domain.str)>>

\* _extract_os_info(payload) -> (os_name, os_version)
_extract_os_info(payload) ==
    LET det == Or(Get1(payload, "os_detail"), EmptyDict)
        legacy == Or(Get1(Or(Get1(payload, "os"), EmptyDict), "os"), EmptyDict)
    IN <<Or(Or(Get1(det, "edition"), Get1(det, "caption")), Get1(legacy, "name")),
         Or(Get1(det, "version"), Get1(legacy, "release"))>>

\* _extract_risk_score(raw)
_extract_risk_score(raw) ==
    IF IsDict(raw) THEN Get(raw, "score", PyInt(0)).int
    ELSE IF IsInt(raw) THEN raw.int
    ELSE IF IsBool(raw) THEN (IF raw.bool THEN 1 ELSE 0)
    ELSE 0

\* a row of the devices table
DeviceRow(id, hostname, domain, last_seen, os_name, os_version, risk_score) ==
    [id |-> id, hostname |-> hostname, domain |-> domain, last_seen |-> last_seen,
     os_name |-> os_name, os_version |-> os_version, risk_score |-> risk_score]

\* the rowids of the device rows with this (hostname, domain)
DevicesOf(devs, hostname, domain) ==
    {i \in DOMAIN devs : devs[i].hostname = hostname /\ devs[i].domain = domain}

\* INSERT INTO devices without the ON CONFLICT clause and without the UNIQUE constraint
upsert_device_AlwaysInsert(devs, hostname, domain, last_seen, os_name, os_version, risk_score) ==
    Append(devs, DeviceRow(Len(devs) + 1, hostname, domain, last_seen, os_name,
                           os_version, risk_score))

\* INSERT INTO devices ... ON CONFLICT (hostname, domain) DO UPDATE SET last_seen, os_name,
\* os_version, risk_score
upsert_device(devs, hostname, domain, last_seen, os_name, os_version, risk_score) ==
    IF DevicesOf(devs, hostname, domain) = {}
    THEN Append(devs, DeviceRow(Len(devs) + 1, hostname, domain, last_seen, os_name,
                                os_version, risk_score))
    ELSE [i \in DOMAIN devs |->
            IF i \in DevicesOf(devs, hostname, domain)
            THEN DeviceRow(devs[i].id, hostname, domain, last_seen, os_name, os_version,
                           risk_score)
            ELSE devs[i]]

\* SELECT id FROM devices WHERE hostname = ? AND domain = ? ; fetchone
select_device_id(devs, hostname, domain) ==
    devs[CHOOSE i \in DevicesOf(devs, hostname, domain) : TRUE].id

\* INSERT INTO reports (device_id, collected_at, risk_score, findings_json, raw_json)
insert_report(reps, device_id, collected_at, risk_score, findings, raw) ==
    Append(reps, [id |-> Len(reps) + 1, device_id |-> device_id,
                  collected_at |-> collected_at, risk_score |-> risk_score,
                  findings |-> findings, raw |-> raw])

\* an HTTPException
HttpError(status_code) == [status |-> status_code]

\* require_api_key(x_api_key): the error it raises, None when the key is accepted
require_api_key(x_api_key) ==
    IF _API_KEY = "" THEN HttpError(503)
    ELSE IF x_api_key # _API_KEY THEN HttpError(401)
    ELSE PyNone

\* POST /ingest: the tables and the response after the request. The statements of the
\* handler run in one transaction of one connection, committed at the end.
ingest(request, devs, reps) ==
    LET payload == request.payload
        denied == require_api_key(request.x_api_key)
        identity == _extract_device_identity(payload)
        os_info == _extract_os_info(payload)
        risk_score == _extract_risk_score(Get1(payload, "risk_score"))
        collected_at == payload.dict["collected_at"].int
        devs2 == upsert_device(devs, identity[1], identity[2], collected_at,
                               os_info[1], os_info[2], risk_score)
        device_id == select_device_id(devs2, identity[1], identity[2])
        reps2 == insert_report(reps, device_id, collected_at, risk_score,
                               Or(Get1(payload, "findings"), EmptyList), payload)
    IN IF denied # PyNone
       THEN [devices |-> devs, reports |-> reps, response |-> denied]
       ELSE IF payload.dict["schema_version"].str \notin _ACCEPTED_SCHEMA_VERSIONS
       THEN [devices |-> devs, reports |-> reps, response |-> HttpError(422)]
       ELSE [devices |-> devs2, reports |-> reps2,
             response |-> [status |-> 201, ok |-> TRUE, device_id |-> device_id,
                           report_id |-> Len(reps2), hostname |-> identity[1]]]

\* the reports of a device with the greatest collected_at: the rows that
\* ORDER BY collected_at DESC LIMIT 1 can return
LatestRows(reps, device_id) ==
    {i \in DOMAIN reps :
        /\ reps[i].device_id = device_id
        /\ \A j \in DOMAIN reps :
             reps[j].device_id = device_id => reps[j].collected_at <= reps[i].collected_at}

\* GET /devices/{device_id}/latest: the possible responses
get_latest_report(x_api_key, device_id, devs, reps) ==
    IF require_api_key(x_api_key) # PyNone THEN {require_api_key(x_api_key)}
    ELSE IF \A i \in DOMAIN devs : devs[i].id # device_id THEN {HttpError(404)}
    ELSE IF LatestRows(reps, device_id) = {} THEN {HttpError(404)}
    ELSE {[status |-> 200, id |-> reps[i].id, device_id |-> reps[i].device_id,
           collected_at |-> reps[i].collected_at, risk_score |-> reps[i].risk_score,
           findings |-> reps[i].findings, raw |-> reps[i].raw] :
            i \in LatestRows(reps, device_id)}

\* a report as an agent posts it; collected_at is the position of the ISO-8601 UTC text
\* in the order of such texts
Payload(schema_version, hostname, domain, collected_at, risk_score) ==
    PyDict([schema_version |-> PyStr(schema_version),
            collected_at |-> PyInt(collected_at),
            device_identity |-> With(PyDict([hostname |-> PyStr(hostname)]), "domain", domain),
            os_detail |-> PyDict([edition |-> PyStr("Windows 11 Pro")]),
            risk_score |-> risk_score,
            findings |-> EmptyList])

\* the requests of the model: two hosts, one of them also with padded names, old and new
\* collection times, both shapes of risk_score; unknown versions; a wrong key
Requests ==
    {[x_api_key |-> "secret", payload |-> Payload("2.0", "ws-01", PyStr("corp"), t, r)] :
        t \in {1, 2},
        r \in {PyDict([score |-> PyInt(30), level |-> PyStr("medium")]), PyInt(65)}}
    \cup {[x_api_key |-> "secret", payload |-> Payload("2.0", " ws-01 ", PyStr("corp "), 2, PyInt(10))]}
    \cup {[x_api_key |-> "secret", payload |-> Payload("2.0", "ws-02", Absent, t, PyInt(65))] :
            t \in {1, 2}}
    \cup {[x_api_key |-> "secret", payload |-> Payload(v, "ws-01", PyStr("corp"), 2, PyInt(65))] :
            v \in {"1.0", "3.0", ""}}
    \cup {[x_api_key |-> "wrong", payload |-> Payload(v, "ws-03", PyStr("corp"), 2, PyInt(65))] :
            v \in {"2.0", "3.0"}}

\* the server after init_db(): both tables empty
InitServer ==
    /\ mode = "server"
    /\ platform \in {"linux"}
    /\ pc = "serving"
    /\ common_hw_result = Unset
    /\ common_stor_result = Unset
    /\ common_net_result = Unset
    /\ uptime_result = Unset
    /\ legacy_os = Unset
    /\ all_errors = EmptyList
    /\ platform_collectors = <<>>
    /\ platform_results = Unset
    /\ trace = <<>>
    /\ report = PyNone
    /\ maintenance_plan = PyNone
    /\ clock = 0
    /\ NotDelivering
    /\ devices = <<>>
    /\ reports = <<>>
    /\ response = PyNone

\* one POST /ingest request, recorded in trace with its response
Ingest ==
    /\ mode = "server"
    /\ Len(trace) < MaxRequests
    /\ \E request \in Requests :
         LET after == ingest(request, devices, reports)
         IN /\ devices' = after.devices
            /\ reports' = after.reports
            /\ response' = after.response
            /\ trace' = Append(trace, [request |-> request, response |-> after.response])
    /\ UNCHANGED <<mode, platform, pc, common_hw_result, common_stor_result,
                   common_net_result, uptime_result, legacy_os, all_errors,
                   platform_collectors, platform_results, report, maintenance_plan, clock>>
    /\ UNCHANGED delivery_vars

\* one GET /devices/{device_id}/latest request
GetLatest ==
    /\ mode = "server"
    /\ \E device_id \in 1..(Len(devices) + 1) :
         response' \in get_latest_report("secret", device_id, devices, reports)
    /\ UNCHANGED <<mode, platform, pc, common_hw_result, common_stor_result,
                   common_net_result, uptime_result, legacy_os, all_errors,
                   platform_collectors, platform_results, trace, report,
                   maintenance_plan, clock, devices, reports>>
    /\ UNCHANGED delivery_vars

NextServer == Ingest \/ GetLatest

SpecServer == InitServer /\ [][NextServer]_vars

(***************************************************************************)
(* Properties                                                              *)
(***************************************************************************)
\* the steps of one run, in invocation order
ExpectedSteps(plat) ==
    <<"common_hw", "common_storage", "common_net", "uptime", "legacy_os">>
    \o [i \in 1..Len(_load_platform_collectors(plat)) |-> _load_platform_collectors(plat)[i][1]]

Assembled == mode = "run" /\ pc \in {"assembled", "done"}

\* the trace entries that are calls of BaseCollector.collect
CollectorCalls == {i \in DOMAIN trace : trace[i].label # "legacy_os"}

\* C1: collect() never propagates an exception of _collect(): on a failure it returns
\* data = {} and exactly one error "<collector name>: <cause>"; on success errors is
\* empty and data is what _collect() returned.
C1_CollectContract ==
    \A i \in CollectorCalls :
        LET call == trace[i]
        IN /\ ~Propagated(call.result)
           /\ DidRaise(call.outcome) =>
                /\ call.result.data = EmptyDict
                /\ call.result.errors =
                     PyList(<<PyStr(call.name \o ": " \o call.outcome.raises)>>)
           /\ ~DidRaise(call.outcome) =>
                /\ call.result.errors = EmptyList
                /\ call.result.data = call.outcome.returns

\* a run in which one collector failed and another one succeeded
C1_Witness ==
    \E i, j \in CollectorCalls :
        /\ DidRaise(trace[i].outcome)
        /\ trace[i].result.errors = PyList(<<PyStr("windows.logs: timed out")>>)
        /\ ~DidRaise(trace[j].outcome)
        /\ trace[j].result.data = WinHardwareData

\* the data one step leaves behind: what it returned, {} when it failed
DataOf(outcome) == IF DidRaise(outcome) THEN EmptyDict ELSE outcome.returns

\* where the orchestrator keeps the data of the step with this label
RecordedFor(label) ==
    CASE label = "common_hw" -> common_hw_result.data
      [] label = "common_storage" -> common_stor_result.data
      [] label = "common_net" -> common_net_result.data
      [] label = "uptime" -> uptime_result.data
      [] label = "legacy_os" -> legacy_os
      [] OTHER -> Get1(platform_results, label)

\* C2 (safety part): no step lets an exception end the run; the steps invoked so far are
\* a prefix of the fixed list, and the whole list, each step once, when assembly is
\* reached; until assembly the data recorded for each step is that step's own outcome.
C2_Bulkhead ==
    mode = "run" =>
        /\ pc # "crashed"
        /\ Len(trace) <= Len(ExpectedSteps(platform))
        /\ \A i \in DOMAIN trace : trace[i].label = ExpectedSteps(platform)[i]
        /\ pc \in {"assemble", "assembled", "done"} =>
             Len(trace) = Len(ExpectedSteps(platform))
        /\ pc \notin {"assembled", "done", "crashed"} =>
             \A i \in DOMAIN trace : RecordedFor(trace[i].label) = DataOf(trace[i].outcome)

\* C2: in one run, whichever collectors fail, every step of the fixed ordered list is
\* invoked exactly once and the run reaches report assembly; a failure never changes
\* the data recorded for another collector.
C2_EveryStepRunsOnce ==
    [](C2_Bulkhead) /\ <>(mode = "run" /\ pc \in {"assemble", "assembled", "done"})

\* a Windows run that reached assembly although the first platform collector and the
\* legacy OS step failed, with the later collectors' data recorded
C2_Witness ==
    /\ mode = "run" /\ pc = "assemble" /\ platform = "win32"
    /\ Len(trace) = 15
    /\ DidRaise(trace[5].outcome)
    /\ DidRaise(trace[6].outcome)
    /\ platform_results.dict["device_identity"] = EmptyDict
    /\ platform_results.dict["logs"] = LogsData

AllSuggestions(plan) ==
    plan.dict["suggestions"].dict["temp_cleanup"].list
    \o plan.dict["suggestions"].dict["startup_reduction"].list
    \o plan.dict["suggestions"].dict["os_updates"].list

\* C3: every Suggestion of every MaintenancePlan returned by generate(report), in all
\* three categories, has safe_to_automate = false and action.type = "suggest_only".
C3_SuggestOnly ==
    maintenance_plan # PyNone =>
        \A i \in DOMAIN AllSuggestions(maintenance_plan) :
            LET s == AllSuggestions(maintenance_plan)[i]
            IN /\ Get1(s, "safe_to_automate") = PyBool(FALSE)
               /\ Get1(Get(s, "action", EmptyDict), "type") = PyStr("suggest_only")

\* a plan with suggestions of all three categories, a low-priority startup one among them
C3_Witness ==
    /\ maintenance_plan # PyNone
    /\ Len(maintenance_plan.dict["suggestions"].dict["temp_cleanup"].list) > 0
    /\ Len(maintenance_plan.dict["suggestions"].dict["os_updates"].list) > 1
    /\ \E i \in DOMAIN maintenance_plan.dict["suggestions"].dict["startup_reduction"].list :
         maintenance_plan.dict["suggestions"].dict["startup_reduction"].list[i].dict["priority"]
           = PyStr("low")

\* the errors one step of the run reported
ErrorsOf(call) ==
    IF call.label = "legacy_os"
    THEN (IF DidRaise(call.outcome)
          THEN <<PyStr("legacy_os: " \o call.outcome.raises)>> ELSE <<>>)
    ELSE call.result.errors.list

RECURSIVE ErrorsUpTo(_)
\* the errors of the first n steps, concatenated in invocation order
ErrorsUpTo(n) == IF n = 0 THEN <<>> ELSE ErrorsUpTo(n - 1) \o ErrorsOf(trace[n])

\* C4: the errors list of the assembled Report is the concatenation, in invocation
\* order, of the errors of every collector step of the run.
C4_ErrorsConcatenated ==
    Assembled => report.dict["errors"] = PyList(ErrorsUpTo(Len(trace)))

\* a report with errors of a common collector, the legacy OS step and two platform collectors
C4_Witness ==
    /\ Assembled
    /\ report.dict["errors"] =
         PyList(<<PyStr("common.storage: timed out"), PyStr("legacy_os: access denied"),
                  PyStr("windows.device_identity: timed out"),
                  PyStr("windows.logs: timed out")>>)

MappingKeys ==
    {"device_identity", "hardware", "network", "software", "security", "logs",
     "risk_score", "os", "reboot", "snapshot"}

SequenceKeys == {"storage", "disks", "findings", "errors"}

StringKeys == {"schema_version", "agent_version", "run_id", "collected_at"}

\* C5: whatever subset of the collectors failed, the assembled Report has every
\* top-level key, a mapping for each mapping section and a sequence for storage,
\* disks, findings and errors; none is absent or null.
C5_FullyPopulated ==
    report # PyNone =>
        /\ MappingKeys \cup SequenceKeys \cup StringKeys \subseteq DOMAIN report.dict
        /\ \A k \in MappingKeys : IsDict(report.dict[k])
        /\ \A k \in SequenceKeys : IsList(report.dict[k])
        /\ \A k \in StringKeys : IsStr(report.dict[k])

\* the report of a Windows run in which every step failed
C5_Witness ==
    /\ Assembled /\ platform = "win32"
    /\ \A i \in DOMAIN trace : DidRaise(trace[i].outcome)
    /\ report.dict["storage"] = EmptyList
    /\ report.dict["hardware"].dict["cpu"] = EmptyDict

\* the report _assemble_report returns for one set of arguments
ReportOf(a) ==
    _assemble_report(a.common_hw, a.common_storage, a.common_net, a.uptime,
                     a.platform_results, a.legacy_os, a.all_errors,
                     NowIso(0), Uuid4(0)).report

StructuredSections ==
    {"device_identity", "hardware", "storage", "network", "software", "security", "logs"}

SameStructuredSections(r1, r2) == \A k \in StructuredSections : r1.dict[k] = r2.dict[k]

SectionOf(d, k) == Or(Get1(d, k), EmptyDict)

\* the variant "win or mac" of the platform results in the current state
Variant(win_label, mac_label) ==
    IF Truthy(Get(platform_results, win_label, EmptyDict))
    THEN platform_results.dict[win_label]
    ELSE Get(platform_results, mac_label, EmptyDict)

\* C7: in hardware.cpu and hardware.ram every field of the platform result has the
\* platform value, a baseline field has the baseline value only when the platform
\* result has no such field, and with an empty platform result cpu and ram are the
\* baseline mappings.
C7_PlatformOverridesBaseline ==
    report # PyNone =>
        \A sec \in {"cpu", "ram"} :
            LET plat == SectionOf(Variant("_win_hardware", "_mac_hardware"), sec)
                base == SectionOf(common_hw_result.data, sec)
                got == report.dict["hardware"].dict[sec]
            IN /\ DOMAIN got.dict = DOMAIN plat.dict \cup DOMAIN base.dict
               /\ \A k \in DOMAIN plat.dict : got.dict[k] = plat.dict[k]
               /\ \A k \in DOMAIN base.dict \ DOMAIN plat.dict : got.dict[k] = base.dict[k]
               /\ ~Truthy(Variant("_win_hardware", "_mac_hardware")) => got = base

\* a report whose cpu has the platform's physical_cores (6, not the baseline 4), the
\* platform's null max_clock_mhz and the baseline's usage_percent
C7_Witness ==
    /\ report # PyNone
    /\ common_hw_result.data = CommonHardwareData
    /\ Variant("_win_hardware", "_mac_hardware") = WinHardwareData
    /\ report.dict["hardware"].dict["cpu"].dict["physical_cores"] = PyInt(6)
    /\ report.dict["hardware"].dict["cpu"].dict["max_clock_mhz"] = PyNone
    /\ report.dict["hardware"].dict["cpu"].dict["usage_percent"] = PyInt(12)

VariantLabels ==
    {<<"_win_hardware", "_mac_hardware">>, <<"_win_storage", "_mac_storage">>,
     <<"_win_network", "_mac_network">>}

\* C8: for hardware, storage and network the enrichment is the first non-empty variant,
\* Windows then macOS, taken whole; and in a run of the orchestrator at most one of the
\* two variants of a section is non-empty.
C8_FirstNonEmptyVariant ==
    /\ report # PyNone =>
         LET hw == Variant("_win_hardware", "_mac_hardware")
             st == Variant("_win_storage", "_mac_storage")
             nw == Variant("_win_network", "_mac_network")
         IN /\ \A k \in {"gpu", "monitors", "printers"} :
                 report.dict["hardware"].dict[k] = Get(hw, k, EmptyList)
            /\ \A k \in {"motherboard", "bios", "tpm", "secure_boot"} :
                 report.dict["hardware"].dict[k] = Get(hw, k, EmptyDict)
            /\ \A k \in {"cpu", "ram"} :
                 \A f \in DOMAIN SectionOf(hw, k).dict :
                     report.dict["hardware"].dict[k].dict[f] = SectionOf(hw, k).dict[f]
            /\ Truthy(st) =>
                 /\ report.dict["storage"] = Get1(st, "logical_volumes")
                 /\ report.dict["physical_disks"] = Get(st, "physical_disks", EmptyList)
            /\ ~Truthy(st) => report.dict["physical_disks"] = EmptyList
            /\ \A k \in {"adapters", "dns_servers"} :
                 report.dict["network"].dict[k] = Get(nw, k, EmptyList)
            /\ \A k \in {"wifi_ssid", "default_gateway"} :
                 report.dict["network"].dict[k] = Get1(nw, k)
    /\ (mode = "run" /\ platform_results # Unset) =>
         \A p \in VariantLabels :
             ~(Truthy(Get(platform_results, p[1], EmptyDict))
               /\ Truthy(Get(platform_results, p[2], EmptyDict)))

\* a call with both hardware variants non-empty: the report has the Windows one, whole
C8_Witness ==
    /\ mode = "call" /\ report # PyNone
    /\ Get1(platform_results, "_win_hardware") = WinHardwareData
    /\ Get1(platform_results, "_mac_hardware") = MacHardwareData
    /\ report.dict["hardware"].dict["bios"] = WinHardwareData.dict["bios"]
    /\ report.dict["hardware"].dict["gpu"] = WinHardwareData.dict["gpu"]
    /\ report.dict["hardware"].dict["cpu"].dict["name"] = PyStr("Xeon")

\* C9: when the startup collector produced non-empty data, software.startup_entries of
\* the Report equals startup.entries ([] without an entries key), whatever the software
\* collector returned, also when it failed.
C9_StartupEntriesInSync ==
    /\ (report # PyNone /\ Truthy(report.dict["startup"])) =>
         Get1(report.dict["software"], "startup_entries")
           = Get(report.dict["startup"], "entries", EmptyList)
    /\ Assembled =>
         \A i \in DOMAIN trace :
             (trace[i].label = "_startup" /\ ~DidRaise(trace[i].outcome)) =>
                 /\ report.dict["startup"] = trace[i].outcome.returns
                 /\ Get1(report.dict["software"], "startup_entries")
                      = Get(trace[i].outcome.returns, "entries", EmptyList)

\* a run in which the software collector failed and the startup collector succeeded
C9_Witness ==
    /\ Assembled
    /\ \E i, j \in DOMAIN trace :
         /\ trace[i].label = "software" /\ DidRaise(trace[i].outcome)
         /\ trace[j].label = "_startup" /\ ~DidRaise(trace[j].outcome)
    /\ report.dict["software"] = PyDict([startup_entries |-> StartupEntries])

\* d without some keys
Without(d, keys) == PyDict([k \in DOMAIN d.dict \ keys |-> d.dict[k]])

\* C10 as stated: assembling twice from identical collector outputs yields Reports
\* identical in every field except collected_at and run_id.
C10_IdenticalExceptIds ==
    [][(mode = "call" /\ report # PyNone /\ report' # PyNone) =>
         Without(report, {"collected_at", "run_id"})
           = Without(report', {"collected_at", "run_id"})]_vars

\* the report without the fields that carry the clock reading or the random run id
TimeFree(rpt, uptime) ==
    LET r1 == Without(rpt, {"collected_at", "run_id"})
    IN IF Has(uptime, "snapshot_utc") THEN r1
       ELSE SetItem(r1, "snapshot", Without(r1.dict["snapshot"], {"generated_at_utc"}))

\* C10, amended: assembling twice from identical collector outputs yields Reports
\* identical in every field except collected_at, run_id and, when the uptime data has
\* no snapshot_utc, snapshot.generated_at_utc.
C10_IdenticalExceptTimeFields ==
    [][(mode = "call" /\ report # PyNone /\ report' # PyNone) =>
         TimeFree(report, uptime_result.data) = TimeFree(report', uptime_result.data)]_vars

\* a second assembly from the same outputs, uptime data without snapshot_utc: its
\* snapshot.generated_at_utc is the second clock reading
C10_Witness ==
    /\ mode = "call" /\ clock = 2 /\ report # PyNone
    /\ uptime_result.data = PyDict([uptime |-> PyDict([days |-> PyInt(61)])])
    /\ Has(platform_results, "_startup")
    /\ report.dict["snapshot"].dict["generated_at_utc"] = PyStr(NowIso(1))
    /\ report.dict["run_id"] = PyStr(Uuid4(1))

\* compute_findings has been applied to the report of the current state
Evaluated == IF mode = "findings" THEN pc = "findings_done" ELSE report # PyNone

FindingsList == report.dict["findings"].list

\* the findings with one id, in list order
FindingsWithId(id) ==
    LET HasId(f) == f.dict["id"] = PyStr(id) IN SelectSeq(FindingsList, HasId)

SeverityOf(f) == f.dict["severity"].str

WeightOf(severity) ==
    CASE severity = "low" -> 5
      [] severity = "medium" -> 15
      [] severity = "high" -> 30
      [] severity = "critical" -> 50
      [] OTHER -> 0

RECURSIVE WeightSum(_)
WeightSum(findings) ==
    IF findings = <<>> THEN 0 ELSE WeightOf(SeverityOf(Head(findings))) + WeightSum(Tail(findings))

\* C11: risk_score.score = min(100, sum over the returned findings of the weight of the
\* finding's severity), weights low 5, medium 15, high 30, critical 50; so 0 <= score <= 100.
C11_ScoreIsCappedWeightSum ==
    Evaluated =>
        LET score == report.dict["risk_score"].dict["score"].int
            total == WeightSum(FindingsList)
        IN /\ score = (IF total > 100 THEN 100 ELSE total)
           /\ 0 <= score /\ score <= 100

\* findings of all four severities whose weights add up to more than 100: score 100
C11_Witness ==
    /\ Evaluated
    /\ WeightSum(FindingsList) > 100
    /\ report.dict["risk_score"].dict["score"] = PyInt(100)
    /\ \A sev \in {"low", "medium", "high", "critical"} :
         \E i \in DOMAIN FindingsList : SeverityOf(FindingsList[i]) = sev

\* C12: risk_score.level depends on risk_score.score alone: critical from 61, high
\* from 31 to 60, medium from 11 to 30, low up to 10; no findings gives low, one high
\* finding gives medium, three high findings give critical.
C12_LevelBands ==
    Evaluated =>
        LET score == report.dict["risk_score"].dict["score"].int
            level == report.dict["risk_score"].dict["level"]
            AllHigh == \A i \in DOMAIN FindingsList : SeverityOf(FindingsList[i]) = "high"
        IN /\ score >= 61 => level = PyStr("critical")
           /\ (31 <= score /\ score <= 60) => level = PyStr("high")
           /\ (11 <= score /\ score <= 30) => level = PyStr("medium")
           /\ score <= 10 => level = PyStr("low")
           /\ Len(FindingsList) = 0 => level = PyStr("low")
           /\ (Len(FindingsList) = 1 /\ AllHigh) => level = PyStr("medium")
           /\ (Len(FindingsList) = 3 /\ AllHigh) => level = PyStr("critical")

\* two high findings: score 60, the top of the high band
C12_Witness ==
    /\ Evaluated
    /\ Len(FindingsList) = 2
    /\ \A i \in DOMAIN FindingsList : SeverityOf(FindingsList[i]) = "high"
    /\ report.dict["risk_score"].dict["score"] = PyInt(60)
    /\ report.dict["risk_score"].dict["level"] = PyStr("high")

SeverityRank(severity) ==
    CASE severity = "critical" -> 0
      [] severity = "high" -> 1
      [] severity = "medium" -> 2
      [] OTHER -> 3

\* C13: the findings list is ordered by severity rank critical, high, medium, low: no
\* finding is preceded by a finding of strictly lower severity.
C13_SortedBySeverity ==
    Evaluated =>
        \A i, j \in DOMAIN FindingsList :
            i < j => SeverityRank(SeverityOf(FindingsList[i]))
                       <= SeverityRank(SeverityOf(FindingsList[j]))

\* C14: risk_score.factors lists the ids of the returned findings in finding order, no
\* id missing and no id that is not the id of a returned finding.
C14_FactorsAreFindingIds ==
    Evaluated =>
        LET factors == report.dict["risk_score"].dict["factors"].list
        IN /\ Len(factors) = Len(FindingsList)
           /\ \A i \in DOMAIN FindingsList : factors[i] = FindingsList[i].dict["id"]

\* a medium finding followed by high ones, two of them of the same rule
C14_Witness ==
    /\ Evaluated
    /\ report.dict["risk_score"].dict["factors"] =
         PyList(<<PyStr("SEC-004"), PyStr("SEC-005"), PyStr("SYS-002"), PyStr("SYS-002")>>)

SecurityInput == Get(report, "security", EmptyDict)

\* C15: unknown or null inputs never trigger a finding: SEC-002 and SEC-003 fire only on
\* an explicit false, and no boolean-gated rule (SEC-001 included) fires when the
\* security collector produced no data.
C15_UnknownNeverTriggers ==
    Evaluated =>
        /\ Len(FindingsWithId("SEC-002")) > 0 =>
             Get1(SecurityInput, "uac_enabled") = PyBool(FALSE)
        /\ Len(FindingsWithId("SEC-003")) > 0 =>
             Get1(Get(SecurityInput, "firewall", EmptyDict), "public_enabled") = PyBool(FALSE)
        /\ ~Truthy(SecurityInput) =>
             \A id \in {"SEC-001", "SEC-002", "SEC-003"} : Len(FindingsWithId(id)) = 0

\* C16: exactly one SEC-001 finding, of severity high, if and only if no entry of
\* security.antivirus has enabled = true (an empty list and a list of disabled products
\* included); none when at least one entry has enabled = true.
C16_NoActiveAntivirus ==
    Evaluated =>
        LET av_list == Get(SecurityInput, "antivirus", EmptyList).list
            SomeEnabled == \E i \in DOMAIN av_list : Get1(av_list[i], "enabled") = PyBool(TRUE)
        IN /\ SomeEnabled => Len(FindingsWithId("SEC-001")) = 0
           /\ ~SomeEnabled =>
                /\ Len(FindingsWithId("SEC-001")) = 1
                /\ SeverityOf(FindingsWithId("SEC-001")[1]) = "high"

\* a disabled product listed before an enabled one: no SEC-001
C16_Witness ==
    /\ Evaluated
    /\ Len(Get(SecurityInput, "antivirus", EmptyList).list) = 2
    /\ Get1(SecurityInput.dict["antivirus"].list[1], "enabled") = PyBool(FALSE)
    /\ Get1(SecurityInput.dict["antivirus"].list[2], "enabled") = PyBool(TRUE)
    /\ Len(FindingsWithId("SEC-001")) = 0

\* percent_used of a volume as compared by the rule: 0 for null or missing
PercentUsed(volume) ==
    IF Has(volume, "percent_used") /\ IsInt(volume.dict["percent_used"])
    THEN volume.dict["percent_used"].int ELSE 0

RECURSIVE DiskSeverities(_)
\* the SYS-002 severities the volumes call for, in volume order
DiskSeverities(volumes) ==
    IF volumes = <<>> THEN <<>>
    ELSE (IF PercentUsed(Head(volumes)) > 95 THEN <<"high">>
          ELSE IF PercentUsed(Head(volumes)) > 90 THEN <<"medium">>
          ELSE <<>>)
         \o DiskSeverities(Tail(volumes))

\* C17: per volume of storage, one SYS-002 finding of severity high when
\* percent_used > 95, one of severity medium when 90 < percent_used <= 95, none when
\* percent_used <= 90 or null; as many SYS-002 findings as volumes above 90.
C17_DiskFindingPerVolume ==
    Evaluated =>
        LET volumes == Get(report, "storage", EmptyList).list
            got == FindingsWithId("SYS-002")
            Above90(v) == PercentUsed(v) > 90
        IN /\ [i \in 1..Len(got) |-> SeverityOf(got[i])] = DiskSeverities(volumes)
           /\ Len(got) = Len(SelectSeq(volumes, Above90))

\* volumes at 95% and 96%: a medium and a high SYS-002 finding
C17_Witness ==
    /\ Evaluated
    /\ Len(Get(report, "storage", EmptyList).list) = 2
    /\ PercentUsed(report.dict["storage"].list[1]) = 95
    /\ PercentUsed(report.dict["storage"].list[2]) = 96
    /\ Len(FindingsWithId("SYS-002")) = 2
    /\ SeverityOf(FindingsWithId("SYS-002")[1]) = "medium"
    /\ SeverityOf(FindingsWithId("SYS-002")[2]) = "high"

\* C18: with n entries in logs.failed_logins, one SEC-005 finding of severity high when
\* n >= 10, one of severity medium when 5 <= n <= 9, none when n < 5 or the list is
\* missing.
C18_FailedLogins ==
    Evaluated =>
        LET n == Len(Get(Get(report, "logs", EmptyDict), "failed_logins", EmptyList).list)
            got == FindingsWithId("SEC-005")
        IN /\ n >= 10 => (Len(got) = 1 /\ SeverityOf(got[1]) = "high")
           /\ (5 <= n /\ n <= 9) => (Len(got) = 1 /\ SeverityOf(got[1]) = "medium")
           /\ n < 5 => Len(got) = 0

\* exactly five failed logins: one medium SEC-005
C18_Witness ==
    /\ Evaluated
    /\ Len(Get(Get(report, "logs", EmptyDict), "failed_logins", EmptyList).list) = 5
    /\ Len(FindingsWithId("SEC-005")) = 1
    /\ SeverityOf(FindingsWithId("SEC-005")[1]) = "medium"

\* reboot.uptime.days when it is a number, 0 when the uptime data is missing or null
UptimeDays ==
    LET reboot == Get(report, "reboot", EmptyDict)
        uptime == Get1(reboot, "uptime")
    IN IF IsDict(uptime) /\ Has(uptime, "days") /\ IsInt(uptime.dict["days"])
       THEN uptime.dict["days"].int ELSE 0

\* C19: with d = reboot.uptime.days, one SYS-001 finding of severity high when d > 60,
\* one of severity medium when 30 < d <= 60, none when d <= 30 or the uptime data is
\* missing or null; never two SYS-001 findings.
C19_LongUptime ==
    Evaluated =>
        LET got == FindingsWithId("SYS-001")
        IN /\ Len(got) <= 1
           /\ UptimeDays > 60 => (Len(got) = 1 /\ SeverityOf(got[1]) = "high")
           /\ (30 < UptimeDays /\ UptimeDays <= 60) =>
                (Len(got) = 1 /\ SeverityOf(got[1]) = "medium")
           /\ UptimeDays <= 30 => Len(got) = 0

\* an uptime of exactly 60 days: one medium SYS-001
C19_Witness ==
    /\ Evaluated
    /\ UptimeDays = 60
    /\ Len(FindingsWithId("SYS-001")) = 1
    /\ SeverityOf(FindingsWithId("SYS-001")[1]) = "medium"

\* C20: exactly one SEC-004 finding, of severity medium, if and only if the encryption
\* volume list is non-empty and at least one entry has a protection status other than
\* on, however many; none when the list is empty or every entry is protected.
C20_EncryptionGap ==
    Evaluated =>
        LET bl_vols == Get(Get(SecurityInput, "encryption", EmptyDict),
                           "bitlocker_volumes", EmptyList).list
            SomeUnprotected ==
                \E i \in DOMAIN bl_vols : Get1(bl_vols[i], "protection_status") # PyInt(1)
            got == FindingsWithId("SEC-004")
        IN /\ SomeUnprotected => (Len(got) = 1 /\ SeverityOf(got[1]) = "medium")
           /\ ~SomeUnprotected => Len(got) = 0

\* two volumes, neither protected: a single SEC-004
C20_Witness ==
    /\ Evaluated
    /\ Len(Get(Get(SecurityInput, "encryption", EmptyDict), "bitlocker_volumes", EmptyList).list) = 2
    /\ \A i \in {1, 2} :
         Get1(SecurityInput.dict["encryption"].dict["bitlocker_volumes"].list[i],
              "protection_status") # PyInt(1)
    /\ Len(FindingsWithId("SEC-004")) = 1

\* the name of an installed record or of a pattern entry, "" when null or missing
NameOf(d) == IF Has(d, "name") /\ IsStr(d.dict["name"]) THEN d.dict["name"].str ELSE ""

\* the pattern table a configuration file holds, empty when there is none
TableOf(config_path) ==
    IF config_path \in {"config/unwanted_apps.yaml", "sparse.yaml"}
    THEN SafeLoad(config_path).dict["patterns"].list ELSE <<>>

\* the positions of the patterns whose name is a case-insensitive substring of the name
Hits(table, app) == {i \in DOMAIN table : Contains(Lower(NameOf(table[i])), Lower(NameOf(app)))}

FirstOf(S) == CHOOSE i \in S : \A j \in S : i <= j

RECURSIVE ExpectedRecords(_, _)
\* per installed item, in installed order: nothing, or the first matching pattern
ExpectedRecords(installed, table) ==
    IF installed = <<>> THEN <<>>
    ELSE (IF Hits(table, Head(installed)) = {} THEN <<>>
          ELSE LET entry == table[FirstOf(Hits(table, Head(installed)))]
               IN <<[installed_name |-> NameOf(Head(installed)),
                     pattern |-> NameOf(entry),
                     severity |-> Get(entry, "severity", PyStr("medium")).str]>>)
         \o ExpectedRecords(Tail(installed), table)

\* C21: match_installed returns at most one record per installed item: in installed
\* order, the record names the first pattern in table order whose name is a
\* case-insensitive substring of the item's name; no record for an item matching no
\* pattern, none at all for an empty or missing table. compute_findings wraps each record
\* into exactly one SWU-001 finding carrying that pattern's configured severity.
C21_FirstMatchWins ==
    /\ (mode = "match" /\ pc = "matched") =>
         LET installed == report.dict["installed"].list
             table == TableOf(report.dict["config_path"].str)
             matches == report.dict["matches"].list
         IN /\ Len(matches) <= Len(installed)
            /\ [i \in 1..Len(matches) |->
                  [installed_name |-> matches[i].dict["installed_name"].str,
                   pattern |-> matches[i].dict["pattern"].str,
                   severity |-> matches[i].dict["severity"].str]]
               = ExpectedRecords(installed, table)
            /\ table = <<>> => matches = <<>>
    /\ (mode = "findings" /\ pc = "findings_done") =>
         LET installed == Get(Or(Get1(report, "software"), EmptyDict), "installed", EmptyList).list
             expected == ExpectedRecords(installed, UnwantedPatterns)
             got == FindingsWithId("SWU-001")
         IN /\ Len(got) = Len(expected)
            /\ \A i \in 1..Len(got) :
                 /\ SeverityOf(got[i]) = expected[i].severity
                 /\ got[i].dict["title"].str
                    = "Unwanted software detected: " \o expected[i].installed_name

\* uTorrent contains both "torrent" and "uTorrent"; the one record names "torrent", and
\* the upper-case toolbar matches the pattern "Toolbar"
C21_Witness ==
    /\ mode = "match" /\ pc = "matched"
    /\ report.dict["config_path"] = PyStr("config/unwanted_apps.yaml")
    /\ report.dict["installed"] = PyList(<<App("uTorrent"), App("ASK TOOLBAR")>>)
    /\ Len(report.dict["matches"].list) = 2
    /\ report.dict["matches"].list[1].dict["pattern"] = PyStr("torrent")
    /\ report.dict["matches"].list[2].dict["pattern"] = PyStr("Toolbar")

Generated == mode = "generate" /\ pc = "generated"

\* the startup_reduction suggestions of the plan
StartupSuggestions == maintenance_plan.dict["suggestions"].dict["startup_reduction"].list

\* a name matches the exemption table: an exempt word is a case-insensitive substring
MatchesExemption(name) ==
    \E ex \in {"egui", "securityhealth", "globalprotect", "keepass", "keepass 2"} :
        InName(ex, LowerName(name))

\* a name matches an optional pattern
MatchesOptional(name) ==
    \E i \in DOMAIN _OPTIONAL_PATTERNS : InName(_OPTIONAL_PATTERNS[i], LowerName(name))

\* the class of a startup entry: exempt first, then RunOnce, disabled, optional
EntryClass(entry) ==
    IF MatchesExemption(NameOf(entry)) THEN "none"
    ELSE IF Get1(entry, "type") = PyStr("registry_runonce") THEN "medium"
    ELSE IF Get1(entry, "enabled") = PyBool(FALSE) THEN "info"
    ELSE IF MatchesOptional(NameOf(entry)) THEN "low"
    ELSE "none"

Classified(entry) == EntryClass(entry) # "none"

\* C22: analyze_startup_reduction never emits a suggestion for a startup entry or
\* scheduled task whose name matches the exemption table, even when the name also matches
\* an optional pattern, is a RunOnce entry, or is disabled; every non-exempt startup entry
\* yields at most one suggestion, classified in the order RunOnce (medium), disabled
\* (info), optional pattern (low).
C22_ExemptNeverFlagged ==
    Generated =>
        LET startup == Or(Get1(report, "startup"), EmptyDict)
            entries == Or(Get1(startup, "entries"), EmptyList).list
            tasks == Or(Get1(startup, "scheduled_tasks"), EmptyList).list
            flagged == SelectSeq(entries, Classified)
            got == StartupSuggestions
        IN /\ \A i \in DOMAIN got : ~MatchesExemption(NameOf(got[i].dict["entry"]))
           /\ Len(flagged) <= Len(got) /\ Len(got) <= Len(flagged) + Len(tasks)
           /\ \A i \in DOMAIN flagged :
                /\ got[i].dict["entry"] = flagged[i]
                /\ got[i].dict["priority"] = PyStr(EntryClass(flagged[i]))
           /\ \A i \in DOMAIN got : i > Len(flagged) =>
                \E j \in DOMAIN tasks : NameOf(tasks[j]) = NameOf(got[i].dict["entry"])

\* a disabled RunOnce entry whose name is exempt and optional, before a disabled RunOnce
\* entry that is merely optional: one suggestion, medium, for the second
C22_Witness ==
    /\ Generated
    /\ Len(Get(Or(Get1(report, "startup"), EmptyDict), "entries", EmptyList).list) = 2
    /\ LET entries == report.dict["startup"].dict["entries"].list
       IN /\ NameOf(entries[1]) = "OneDrive KeePass"
          /\ NameOf(entries[2]) = "OneDrive"
          /\ \A i \in {1, 2} : /\ Get1(entries[i], "type") = PyStr("registry_runonce")
                               /\ Get1(entries[i], "enabled") = PyBool(FALSE)
          /\ Len(StartupSuggestions) = 1
          /\ StartupSuggestions[1].dict["entry"] = entries[2]
          /\ StartupSuggestions[1].dict["priority"] = PyStr("medium")

\* the os_updates suggestions of the plan
OsUpdateSuggestions == maintenance_plan.dict["suggestions"].dict["os_updates"].list

SuggestionsWithId(id) ==
    LET HasId(x) == x.dict["id"] = PyStr(id) IN SelectSeq(OsUpdateSuggestions, HasId)

\* os_detail.patches.last_installed of the report, None when any level is missing
LastInstalledRaw ==
    Get1(Or(Get1(Or(Get1(report, "os_detail"), EmptyDict), "patches"), EmptyDict), "last_installed")

\* the last patch date in epoch seconds, NoDate when it cannot be determined
LastPatchEpoch == IF IsStr(LastInstalledRaw) THEN DateReSearch(LastInstalledRaw.str) ELSE NoDate

\* whole days between the last patch and the clock reading of the analysis
DaysSincePatch == (NowEpoch(clock - 2) - LastPatchEpoch) \div 86400

\* C23: analyze_os_updates always emits exactly one standing informational suggestion
\* (MAINT-OSU-002) and at most one MAINT-OSU-001: medium when the last patch date cannot
\* be determined; otherwise, with n whole days since the last patch, high when n >= 90,
\* medium when 30 <= n < 90, low when 14 <= n < 30, none when n < 14.
C23_PatchStaleness ==
    Generated =>
        LET standing == SuggestionsWithId("MAINT-OSU-002")
            stale == SuggestionsWithId("MAINT-OSU-001")
            n == DaysSincePatch
            expected == IF LastPatchEpoch = NoDate THEN "medium"
                        ELSE IF n >= 90 THEN "high"
                        ELSE IF n >= 30 THEN "medium"
                        ELSE IF n >= 14 THEN "low"
                        ELSE "none"
        IN /\ Len(standing) = 1
           /\ standing[1].dict["priority"] = PyStr("info")
           /\ Len(OsUpdateSuggestions) = Len(standing) + Len(stale)
           /\ Len(stale) <= 1
           /\ expected = "none" => Len(stale) = 0
           /\ expected # "none" =>
                (Len(stale) = 1 /\ stale[1].dict["priority"] = PyStr(expected))

\* a patch exactly 30 days old: medium, next to the standing reminder
C23_Witness ==
    /\ Generated
    /\ LastPatchEpoch # NoDate
    /\ DaysSincePatch = 30
    /\ Len(SuggestionsWithId("MAINT-OSU-001")) = 1
    /\ SuggestionsWithId("MAINT-OSU-001")[1].dict["priority"] = PyStr("medium")
    /\ Len(SuggestionsWithId("MAINT-OSU-002")) = 1

\* schema_version of a recorded request
VersionOf(entry) == entry.request.payload.dict["schema_version"].str

\* C24: a POST /ingest request whose schema_version is not "1.0" or "2.0" is rejected
\* with a 422 error (401 when it does not even carry the API key) and leaves the devices
\* and reports tables unchanged; only requests with an accepted schema_version create or
\* update a row.
C24_UnknownVersionRejected ==
    [][(mode = "server" /\ Len(trace') = Len(trace) + 1) =>
         LET entry == trace'[Len(trace')]
             changed == devices' # devices \/ reports' # reports
         IN /\ VersionOf(entry) \notin {"1.0", "2.0"} =>
                 /\ ~changed
                 /\ entry.response.status \in {401, 422}
                 /\ entry.request.x_api_key = "secret" => entry.response.status = 422
            /\ changed => VersionOf(entry) \in {"1.0", "2.0"}]_vars

\* two reports stored, then an authenticated request with version 3.0: 422, nothing added
C24_Witness ==
    /\ mode = "server"
    /\ Len(trace) = 3
    /\ VersionOf(trace[3]) = "3.0"
    /\ trace[3].request.x_api_key = "secret"
    /\ response = [status |-> 422]
    /\ Len(reports) = 2
    /\ Len(devices) >= 1

\* the recorded requests that carry the API key and an accepted schema_version
AcceptedRequests ==
    LET IsAccepted(entry) == /\ entry.request.x_api_key = "secret"
                             /\ VersionOf(entry) \in {"1.0", "2.0"}
    IN SelectSeq(trace, IsAccepted)

\* the normalised (hostname, domain) of a recorded request
PairOf(entry) == _extract_device_identity(entry.request.payload)

PairsSeen == {PairOf(AcceptedRequests[i]) : i \in DOMAIN AcceptedRequests}

\* one device row per pair seen, one report row per accepted request, each referencing the
\* device row of its own pair
TablesMatchHistory ==
    mode = "server" =>
        /\ Len(reports) = Len(AcceptedRequests)
        /\ {<<devices[i].hostname, devices[i].domain>> : i \in DOMAIN devices} = PairsSeen
        /\ Len(devices) = Cardinality(PairsSeen)
        /\ \A i \in DOMAIN reports :
             \E d \in DOMAIN devices :
                /\ devices[d].id = reports[i].device_id
                /\ <<devices[d].hostname, devices[d].domain>> = PairOf(AcceptedRequests[i])

\* a step keeps every reports row and the id of every device
KeepsRowsAndIds ==
    mode = "server" =>
        /\ \A i \in DOMAIN reports : i \in DOMAIN reports' /\ reports'[i] = reports[i]
        /\ \A d \in DOMAIN devices :
             \E e \in DOMAIN devices' :
                /\ devices'[e].id = devices[d].id
                /\ devices'[e].hostname = devices[d].hostname
                /\ devices'[e].domain = devices[d].domain

\* C28: after any sequence of accepted POST /ingest requests the devices table holds
\* exactly one row per distinct normalised (hostname, domain) pair seen so far and the
\* reports table one row per accepted request, each referencing the device row of its own
\* pair; an ingest never deletes or modifies a reports row and never changes the id of an
\* existing device.
C28_OneRowPerDeviceAndReport == []TablesMatchHistory /\ [][KeepsRowsAndIds]_vars

\* three accepted reports of two hosts, one of them sent with padded names
C28_Witness ==
    /\ mode = "server"
    /\ Len(AcceptedRequests) = 3
    /\ Len(reports) = 3
    /\ Len(devices) = 2
    /\ \E i \in DOMAIN trace :
         trace[i].request.payload.dict["device_identity"].dict["hostname"] = PyStr(" ws-01 ")
    /\ \E i \in DOMAIN trace :
         trace[i].request.payload.dict["device_identity"].dict["hostname"] = PyStr("ws-01")

\* C29: after any sequence of accepted ingests for one device, in whatever order their
\* collected_at timestamps arrive, last_seen and risk_score of the device row equal the
\* collected_at and risk_score of the report GET /devices/{id}/latest returns (a report
\* with the greatest collected_at).
C29_DeviceRowIsLatestReport ==
    mode = "server" =>
        \A d \in DOMAIN devices :
            LatestRows(reports, devices[d].id) # {} =>
                \E i \in LatestRows(reports, devices[d].id) :
                    /\ devices[d].last_seen = reports[i].collected_at
                    /\ devices[d].risk_score = reports[i].risk_score

\* C25: any failure to persist or deliver a Report or MaintenancePlan (writing the JSON or
\* HTML file, the HTTP POST in post mode, the copy in share mode) is fatal to the run: it
\* is reported and the run terminates with a non-zero exit status instead of completing.
C25_DeliveryFailureIsFatal ==
    (mode = "deliver" /\ stderr # <<>>) =>
        /\ pc = "exited"
        /\ exit_status \notin {PyNone, PyInt(0)}

C27_AssemblyLeavesInputsAlone ==
    [][(mode = "run" /\ pc = "assemble" /\ pc' = "assembled") =>
         platform_results' = platform_results]_vars

\* what the dedicated antivirus collector handed to the assembly, and the antivirus list
\* of the security collector, in the platform_results passed to _assemble_report
AntivirusInput == Or(Get1(platform_results, "_antivirus"), EmptyDict)

OwnAntivirus == Get1(Get(platform_results, "security", EmptyDict), "antivirus")

MergedAntivirus == Get1(SecurityInput, "antivirus")

\* an assembly step: the report changes (every call reads the clock anew)
Assembles == mode \in {"run", "call"} /\ report' # report

\* C30: in the assembled report security.antivirus is the antivirus collector's products
\* whenever that collector returned non-empty data with non-null products (an empty
\* products list replacing a non-empty list of the security collector), it is the
\* security collector's own list when the antivirus collector returned no data, and
\* SEC-001 is evaluated on the merged list.
C30_AntivirusMerge ==
    [][Assembles =>
         /\ (Truthy(AntivirusInput) /\ ~IsNone(Get1(AntivirusInput, "products"))) =>
              MergedAntivirus' = Get1(AntivirusInput, "products")
         /\ ~Truthy(AntivirusInput) => MergedAntivirus' = OwnAntivirus
         /\ LET merged == Or(MergedAntivirus', EmptyList).list
                SomeEnabled == \E i \in DOMAIN merged : Truthy(Get1(merged[i], "enabled"))
            IN (Len(FindingsWithId("SEC-001")') = 0) <=> SomeEnabled]_vars

\* the security collector listed an enabled product, the antivirus collector returned an
\* empty products list: the report has the empty list and SEC-001
C30_Witness ==
    /\ mode = "call" /\ report # PyNone
    /\ Get1(AntivirusInput, "products") = EmptyList
    /\ IsList(OwnAntivirus)
    /\ \E i \in DOMAIN OwnAntivirus.list : Truthy(Get1(OwnAntivirus.list[i], "enabled"))
    /\ MergedAntivirus = EmptyList
    /\ Len(FindingsWithId("SEC-001")) = 1

====
